---- MODULE Spec2Model ----
(***************************************************************************)
(* Rule-Bot: the DoH resolution engine (dns_service.py), the geo lookup    *)
(* (geoip_service.py) and the domain classifier (domain_checker.py).       *)
(*                                                                         *)
(* The specifications share the variables of this module:                  *)
(*   Spec        the classifier, check_domain_comprehensive, step by step  *)
(*   SpecPair    the classifier run repeatedly, remembering the previous   *)
(*               result's selector outputs                                 *)
(*   SpecDecode  the A and NS response decoders run on crafted messages    *)
(*   SpecQuery   query_a_record / query_ns_records over the endpoints      *)
(*   SpecQueryLive  the same, every awaited step coming to an end          *)
(*   SpecSld     extract_second_level_domain called on one domain          *)
(*   SpecGeo     get_location_info called on one address string            *)
(*   SpecLife    the life cycle of DNSService under the bot and its test   *)
(*   SpecGitHub  add_domain_to_rules / remove_domain_from_rules on the     *)
(*               rule file of the repository                               *)
(*   SpecEncode  _build_dns_query                                          *)
(*   SpecBot     the handlers of handler_manager.py for one user           *)
(*                                                                         *)
(* Python values: a domain string is a sequence of labels, None and ""     *)
(* are both the empty sequence (the code only tests truthiness), an IPv4   *)
(* string "a.b.c.d" is the tuple <<a,b,c,d>>, bytes are sequences of       *)
(* 0..255.                                                                 *)
(***************************************************************************)
EXTENDS Integers, Sequences, FiniteSets, TLC

VARIABLES
    pc,          \* where check_domain_comprehensive stands
    reader,      \* GeoIPService.reader: TRUE when a country database is loaded
    result,      \* the dict check_domain_comprehensive builds and returns
    ns_summary,  \* local ns_summary of the NS loop
    nsIdx,       \* index of the name server the NS loop is at
    china_ns_count,  \* local china_ns_count of the NS loop
    total_ns_count,  \* local total_ns_count of the NS loop
    calls,       \* resolver calls issued by this classification, in order
    inputs,      \* the raw inputs users send
    track,       \* TRUE in SpecPair: remember the previous result's selectors
    prev,        \* selector outputs of the previous classification result
    raw_input,   \* argument domain of the classification under way
    geo_lookups  \* get_location_info calls made by this classification

VARIABLES
    answers,     \* the resource records msg was built from
    wellformed,  \* TRUE when msg is a valid response, FALSE when it is damaged
    msg,         \* the response message a decoder run is derived from
    cut,         \* how many leading bytes of msg the decoder is given first
    rtype,       \* "A": _parse_dns_response_a, "NS": _parse_dns_response_ns
    run,         \* 1: decoding the first cut bytes of msg, 2: decoding all of msg
    data,        \* response_data of the running decoder
    dpc,         \* where the decoder stands
    answer_count,\* answers the for loop has still to visit
    offset,      \* offset of the decoder
    rd_length,   \* rd_length of the record whose NS name is being parsed
    records,     \* ips / ns_servers collected so far
    noffset,     \* offset inside _parse_domain_name
    labels,      \* labels inside _parse_domain_name
    jumps,       \* compression pointers followed by this _parse_domain_name call
    errors,      \* what the decoder wrote with logger.error
    raised,      \* TRUE when an exception left the decoder
    out1         \* what run 1 returned

decVars == <<answers, wellformed, msg, cut, rtype, run, data, dpc, answer_count, offset,
            rd_length, records, noffset, labels, jumps, errors, raised, out1>>

VARIABLES
    qkind,       \* "A": query_a_record, "NS": query_ns_records
    order,       \* the endpoints in the order the configured dict lists them
    okAt,        \* per endpoint: the attempt that gets a non-empty answer, 0: none
    latency,     \* per endpoint: how long one of its requests takes
    sysOk,       \* TRUE when the system resolver has NS records to return
    qpc,         \* where the query call stands
    idx,         \* position in order of the endpoint being tried
    attempt,     \* attempt of _query_doh_server(_ns), counted from 0
    inflight,    \* endpoints with an HTTP request in flight
    sent,        \* per endpoint: HTTP requests sent by this call
    sysCalls,    \* system resolver queries made by this call
    lastFailure, \* how the latest failed attempt failed
    qres,        \* what the query call returned
    qdomain,     \* the domain the call asks about, as labels of ASCII bytes
    query_data,  \* local query_data: the message _build_dns_query built
    sentData,    \* the message carried by the latest HTTP request
    winner,      \* the endpoint whose call returned a non-empty answer
    qraised      \* TRUE when an exception left the query call

qryVars == <<qkind, order, okAt, latency, sysOk, qpc, idx, attempt, inflight, sent,
            sysCalls, lastFailure, qres, qdomain, query_data, sentData, winner,
            qraised>>

VARIABLES
    fname,       \* the function a single call is made to
    farg,        \* the argument of the call
    fret,        \* what the call returned
    fpc          \* "call" before the call, "done" after it

fnVars == <<fname, farg, fret, fpc>>

VARIABLES
    driver,          \* who drives the services: "bot" (RuleBot.start), "test", "off"
    doh_servers,     \* DNSService.doh_servers, the names of the dict's keys
    ns_doh_servers,  \* DNSService.ns_doh_servers
    session,         \* DNSService.session: "absent", "open" or "closed"
    app,             \* the telegram Application: "built", "initialized", "shutdown"
    user_states,     \* TRUE once HandlerManager.start has set user_states
    lpc,             \* position of the driver
    lraised,         \* the exception that is propagating, "none" if none
    lcalls           \* the service methods called so far, in order

lifeVars == <<driver, doh_servers, ns_doh_servers, session, app, user_states,
              lpc, lraised, lcalls>>

VARIABLES
    repo,        \* GitHubService.repo: TRUE when set, FALSE when None
    file,        \* the text of the rule file in the repository
    commits,     \* the commits made to the rule file, oldest first
    gcall,       \* the call in progress: its operation and arguments
    gpc,         \* position inside the call
    content,     \* what get_rule_file_content returned: <<>> is None, <<t>> text t
    prepared,    \* (new_content, commit message) of _prepare_update / _prepare_removal
    file_sha,    \* file_content.sha read in _perform_commit
    gresult,     \* the dict the call returned
    api,         \* the repository requests this call has issued, in order
    external,    \* TRUE once another writer committed during this call
    followup,    \* TRUE during the second call of a sequence
    before       \* the text of the rule file before the first call

ghVars == <<repo, file, commits, gcall, gpc, content, prepared, file_sha,
            gresult, api, external, followup, before>>

VARIABLES
    user_state,        \* user_states[user_id] of the one user: its state and data
    user_add_history,  \* user_add_history[user_id]: the times of the recorded adds
    now,               \* time.time(), in seconds
    messages,          \* the keyboards of the bot's messages that hold a flow button
    direct_rules,      \* the domains of the DOMAIN-SUFFIX lines of DIRECT_RULE_FILE
    proxy_rules,       \* the same for PROXY_RULE_FILE
    last_add,          \* the call of add_domain_to_rules made for the last update, or <<>>
    reply              \* which text the bot answered the last update with

botVars == <<user_state, user_add_history, now, messages, direct_rules, proxy_rules,
             last_add, reply>>

clsVars == <<pc, reader, result, ns_summary, nsIdx, china_ns_count, total_ns_count,
            calls, inputs, track, prev, raw_input, geo_lookups>>

(***************************************************************************)
(* Bounds of the model.                                                    *)
(***************************************************************************)
MaxIPs == 2   \* longest A answer a resolver call returns
MaxNS == 1    \* longest NS answer a resolver call returns

\* All sequences over S of length at most n.
SeqUpTo(S, n) == UNION {[1..k -> S] : k \in 0..n}

NoDomain == <<>>

(***************************************************************************)
(* domain_utils.py                                                         *)
(***************************************************************************)
\* Labels that match [a-zA-Z0-9](?:[a-zA-Z0-9-]{0,61}[a-zA-Z0-9])? in the model.
ValidLabels == {"www", "a", "example", "com", "co", "uk", "cn", "police"}
\* Labels that match [a-zA-Z]{2,}, the last label of a valid domain.
AlphaLabels == {"www", "example", "com", "co", "uk", "cn", "police"}

\* is_valid_domain: one or more labels, each followed by a dot, then an
\* alphabetic label of two or more letters.
is_valid_domain(domain) ==
    /\ Len(domain) >= 2
    /\ \A i \in 1..(Len(domain) - 1) : domain[i] \in ValidLabels
    /\ domain[Len(domain)] \in AlphaLabels

\* extract_domain: the input is the host part already split at the dots;
\* a leading "www." is removed, then the format is validated.
extract_domain(raw) ==
    LET domain == IF Len(raw) >= 2 /\ raw[1] = "www" THEN Tail(raw) ELSE raw
    IN  IF is_valid_domain(domain) THEN domain ELSE NoDomain

\* normalize_domain
normalize_domain(raw) == extract_domain(raw)

\* The entries of three_part_tlds and two_part_tlds over the model's labels.
three_part_tlds == {<<"co", "uk">>, <<"police", "uk">>}
two_part_tlds == {<<"co", "uk">>, <<"com", "cn">>}

LastN(s, n) == SubSeq(s, Len(s) - n + 1, Len(s))

\* _get_tld_length: last_three is the last three labels joined, and is looked
\* up in a table whose entries have two labels.
get_tld_length(parts) ==
    IF Len(parts) < 2 THEN 1
    ELSE IF Len(parts) >= 3 /\ LastN(parts, 3) \in three_part_tlds THEN 3
    ELSE IF LastN(parts, 2) \in two_part_tlds THEN 2
    ELSE 1

\* extract_second_level_domain
extract_second_level_domain(domain) ==
    IF domain = NoDomain THEN NoDomain
    ELSE IF Len(domain) < 2 THEN NoDomain
    ELSE LET tld_length == get_tld_length(domain)
         IN  IF Len(domain) <= tld_length THEN domain
             ELSE LastN(domain, tld_length + 1)

(***************************************************************************)
(* geoip_service.py                                                        *)
(***************************************************************************)
IpCN == <<1, 2, 4, 8>>
IpUS == <<8, 8, 8, 8>>
IPs == {IpCN, IpUS}

NoCode == "None"

\* What the country database answers for an address (reader.country(ip)).
DbCountry(ip) == IF ip = IpCN THEN "CN" ELSE "US"

china_first_octets ==
    {1, 2, 14, 27, 36, 39, 42, 43, 45, 46, 47, 49,
     58, 59, 60, 61, 101, 103, 106, 110, 111, 112, 113, 114, 115,
     116, 117, 118, 119, 120, 121, 122, 123, 124, 125, 130, 131,
     133, 134, 137, 139, 140, 144, 150, 153, 157, 159, 161, 163,
     166, 167, 168, 169, 171, 175, 180, 182, 183, 202, 203, 210,
     211, 218, 219, 220, 221, 222, 223}

\* Lines 90-91 answering with a country for every other address.
FallbackGuessForeign(ip) == IF ip[1] \in china_first_octets THEN "CN" ELSE "US"

\* _fallback_china_check
fallback_china_check(ip) == IF ip[1] \in china_first_octets THEN "CN" ELSE NoCode

\* socket.inet_aton accepts the string: one to four numbers, all but the
\* last at most 255, the last one filling the remaining bytes.  A piece that
\* is not a number is -1 in the model.
inet_aton_ok(ip) ==
    /\ Len(ip) \in 1..4
    /\ \A i \in 1..Len(ip) : ip[i] >= 0
    /\ \A i \in 1..(Len(ip) - 1) : ip[i] <= 255
    /\ ip[Len(ip)] <= (IF Len(ip) = 4 THEN 255
                       ELSE IF Len(ip) = 3 THEN 65535
                       ELSE IF Len(ip) = 2 THEN 16777215 ELSE 2147483647)

\* get_country_code: a string inet_aton refuses raises at line 50 and gives
\* None at line 69.
get_country_code(rd, ip) ==
    IF ~inet_aton_ok(ip) THEN NoCode
    ELSE IF rd THEN DbCountry(ip) ELSE fallback_china_check(ip)

\* The names the model needs of the country_names table; "Unknown" is its default.
CountryName(code) ==
    IF code = "CN" THEN "China" ELSE IF code = "US" THEN "USA" ELSE "Unknown"

\* get_location_info
get_location_info(rd, ip) ==
    LET country_code == get_country_code(rd, ip)
    IN  [ip |-> ip,
         country_code |-> country_code,
         country_name |-> CountryName(country_code),
         is_china |-> IF country_code # NoCode THEN country_code = "CN" ELSE FALSE]

(***************************************************************************)
(* domain_checker.py: check_domain_comprehensive                           *)
(***************************************************************************)
\* Inputs a user sends: hosts already split at the dots.
RawInputs ==
    {<<"www", "example", "com">>, <<"a", "example", "com">>,
     <<"a", "example", "co", "uk">>, <<"example">>,
     <<>>, <<"www", "example">>, <<"example", "a">>}

\* SpecPair classifies these, again and again.
PairInputs == {<<"a", "example", "com">>, <<"example">>}

NSHosts == {<<"ns1", "example", "com">>, <<"ns2", "example", "com">>}

\* What query_a_record and query_ns_records can return.
AAnswers == SeqUpTo(IPs, MaxIPs)
NSAnswers == SeqUpTo(NSHosts, MaxNS)

Max0(n) == IF n > 0 THEN n ELSE 0

NoResult == <<>>

\* The dict of lines 32-53.
InitialResult(domain, normalized_domain, second_level) ==
    [original_domain |-> domain,
     normalized_domain |-> normalized_domain,
     second_level_domain |-> second_level,
     domain_ips |-> <<>>,
     second_level_ips |-> <<>>,
     ns_servers |-> <<>>,
     ns_ips |-> <<>>,
     domain_china_status |-> FALSE,
     second_level_china_status |-> FALSE,
     ns_china_status |-> FALSE,
     domain_china_count |-> 0,
     domain_foreign_count |-> 0,
     second_level_china_count |-> 0,
     second_level_foreign_count |-> 0,
     ns_china_count |-> 0,
     ns_foreign_count |-> 0,
     china_total_count |-> 0,
     foreign_total_count |-> 0,
     recommendation |-> <<>>,
     details |-> <<>>]

ErrorResult(message) == [error |-> message]

\* The IPs of a list that get_location_info attributes to China, in order.
ChinaIps(rd, ips) == SelectSeq(ips, LAMBDA ip : get_location_info(rd, ip).is_china)

\* Lines 61-73 and 83-95 without the else of lines 74-75 and 96-97: an
\* empty answer leaves no line.
IpDetailsResolvedOnly(rd, tag, ips) ==
    [i \in 1..Len(ips) |-> <<tag, ips[i], get_location_info(rd, ips[i]).country_name>>]

\* One details line per IP, then the count line when there are China IPs
\* (lines 61-75 and 83-97); tag names the category.
IpDetails(rd, tag, ips) ==
    LET china_ips == ChinaIps(rd, ips)
    IN  IF ips # <<>>
        THEN [i \in 1..Len(ips) |->
                 <<tag, ips[i], get_location_info(rd, ips[i]).country_name>>]
             \o (IF china_ips # <<>> THEN << <<tag, "china", Len(china_ips)>> >>
                 ELSE <<>>)
        ELSE << <<tag, "unresolved">> >>

\* Lines 58-75: the domain category.
TallyDomain(rd, r, domain_ips) ==
    LET china_ips == ChinaIps(rd, domain_ips)
    IN  IF domain_ips # <<>>
        THEN [r EXCEPT !.domain_ips = domain_ips,
                       !.domain_china_status = Len(china_ips) > 0,
                       !.domain_china_count = Len(china_ips),
                       !.domain_foreign_count = Max0(Len(domain_ips) - Len(china_ips)),
                       !.details = @ \o IpDetails(rd, "domain", domain_ips)]
        ELSE [r EXCEPT !.domain_ips = domain_ips,
                       !.details = @ \o IpDetails(rd, "domain", domain_ips)]

\* Lines 81-97: the second-level category.
TallySecondLevel(rd, r, second_level_ips) ==
    LET china_ips == ChinaIps(rd, second_level_ips)
    IN  IF second_level_ips # <<>>
        THEN [r EXCEPT !.second_level_ips = second_level_ips,
                       !.second_level_china_status = Len(china_ips) > 0,
                       !.second_level_china_count = Len(china_ips),
                       !.second_level_foreign_count =
                           Max0(Len(second_level_ips) - Len(china_ips)),
                       !.details = @ \o IpDetails(rd, "second_level", second_level_ips)]
        ELSE [r EXCEPT !.second_level_ips = second_level_ips,
                       !.details = @ \o IpDetails(rd, "second_level", second_level_ips)]

\* Lines 185-190 with the two positive branches in the other order: the
\* name servers are named first.
RecommendNsFirst(check_result) ==
    LET domain_china == check_result.domain_china_status
        second_level_china == check_result.second_level_china_status
        ns_china == check_result.ns_china_status
        target0 == IF check_result.second_level_domain # NoDomain
                   THEN check_result.second_level_domain
                   ELSE check_result.normalized_domain
        has_china_ip == second_level_china \/ domain_china
        target_domain == IF ~has_china_ip /\ ~ns_china THEN NoDomain ELSE target0
    IN  IF ns_china THEN <<"add", target_domain, "ns_in_china">>
        ELSE IF has_china_ip THEN <<"add", target_domain, "ip_in_china">>
        ELSE <<"reject", target_domain, "neither_in_china">>

\* _generate_recommendation: the verdict, the target it names and the reason.
generate_recommendation(check_result) ==
    LET domain_china == check_result.domain_china_status
        second_level_china == check_result.second_level_china_status
        ns_china == check_result.ns_china_status
        target0 == IF check_result.second_level_domain # NoDomain
                   THEN check_result.second_level_domain
                   ELSE check_result.normalized_domain
        has_china_ip == second_level_china \/ domain_china
        target_domain == IF ~has_china_ip /\ ~ns_china THEN NoDomain ELSE target0
    IN  IF has_china_ip THEN <<"add", target_domain, "ip_in_china">>
        ELSE IF ns_china THEN <<"add", target_domain, "ns_in_china">>
        ELSE <<"reject", target_domain, "neither_in_china">>

\* Lines 152-153 with the second-level category left out of both sums.
TotalsWithoutSecondLevel(r) ==
    LET t == [r EXCEPT
                !.china_total_count = r.domain_china_count + r.ns_china_count,
                !.foreign_total_count = r.domain_foreign_count + r.ns_foreign_count]
    IN  [t EXCEPT !.recommendation = generate_recommendation(t)]

\* Lines 152-156: the grand totals, then the recommendation.
Totals(r) ==
    LET t == [r EXCEPT
                !.china_total_count = r.domain_china_count
                    + r.second_level_china_count + r.ns_china_count,
                !.foreign_total_count = r.domain_foreign_count
                    + r.second_level_foreign_count + r.ns_foreign_count]
    IN  [t EXCEPT !.recommendation = generate_recommendation(t)]

\* Lines 117-126 counting one per name server: a name server with a
\* domestic IP adds 1, whatever the number of its IPs.
TallyNsHostPerHost(rd, r, summary, china, total, ns, ns_ips) ==
    LET china_ips == ChinaIps(rd, ns_ips)
        entry == [china |-> Len(china_ips),
                  foreign |-> Len(ns_ips) - Len(china_ips),
                  ips |-> [i \in 1..Len(ns_ips) |->
                              [ip |-> ns_ips[i],
                               country |-> get_location_info(rd, ns_ips[i]).country_name]]]
    IN  [result |-> [r EXCEPT !.ns_ips = @ \o ns_ips],
         ns_summary |-> [h \in (DOMAIN summary) \cup {ns} |->
                            IF h = ns THEN entry ELSE summary[h]],
         china_ns_count |-> china + (IF china_ips # <<>> THEN 1 ELSE 0),
         total_ns_count |-> total + (IF ns_ips # <<>> THEN 1 ELSE 0)]

\* Lines 111-126: one name server of the NS loop, ns_ips its A answer.
\* Gives the new result, ns_summary, china_ns_count and total_ns_count.
TallyNsHost(rd, r, summary, china, total, ns, ns_ips) ==
    LET china_ips == ChinaIps(rd, ns_ips)
        entry == [china |-> Len(china_ips),
                  foreign |-> Len(ns_ips) - Len(china_ips),
                  ips |-> [i \in 1..Len(ns_ips) |->
                              [ip |-> ns_ips[i],
                               country |-> get_location_info(rd, ns_ips[i]).country_name]]]
    IN  [result |-> [r EXCEPT !.ns_ips = @ \o ns_ips],
         ns_summary |-> [h \in (DOMAIN summary) \cup {ns} |->
                            IF h = ns THEN entry ELSE summary[h]],
         china_ns_count |-> china + Len(china_ips),
         total_ns_count |-> total + Len(ns_ips)]

\* The keys of ns_summary in insertion order: the name servers, first occurrence.
RECURSIVE InsertionOrder(_)
InsertionOrder(ns_servers) ==
    IF ns_servers = <<>> THEN <<>>
    ELSE LET front == InsertionOrder(SubSeq(ns_servers, 1, Len(ns_servers) - 1))
             last == ns_servers[Len(ns_servers)]
         IN  IF \E i \in 1..Len(front) : front[i] = last THEN front
             ELSE Append(front, last)

\* Lines 139-148: the details line of one name server.
NsHostDetail(ns, summary) ==
    IF summary.china > 0 /\ summary.foreign > 0
    THEN <<"ns_host", ns, "china", summary.china, "foreign", summary.foreign>>
    ELSE IF summary.china > 0 THEN <<"ns_host", ns, "china", summary.china>>
    ELSE <<"ns_host", ns, "foreign", summary.foreign>>

\* Lines 128-148 with line 136 storing total_ns_count as the foreign count.
FinishNsForeignIsTotal(r, summary, china, total) ==
    LET keys == InsertionOrder(r.ns_servers)
    IN  [r EXCEPT !.ns_china_status = IF china > 0 THEN TRUE ELSE @,
                  !.ns_china_count = china,
                  !.ns_foreign_count = Max0(total),
                  !.details = (@ \o << <<"ns", "china", china, "of", total>> >>)
                      \o [i \in 1..Len(keys) |-> NsHostDetail(keys[i], summary[keys[i]])]]

\* Lines 128-148: after the NS loop.
FinishNs(r, summary, china, total) ==
    LET keys == InsertionOrder(r.ns_servers)
    IN  [r EXCEPT !.ns_china_status = IF china > 0 THEN TRUE ELSE @,
                  !.ns_china_count = china,
                  !.ns_foreign_count = Max0(total - china),
                  !.details = (@ \o << <<"ns", "china", china, "of", total>> >>)
                      \o [i \in 1..Len(keys) |-> NsHostDetail(keys[i], summary[keys[i]])]]

(***************************************************************************)
(* domain_checker.py: the decision predicates and the target selectors     *)
(***************************************************************************)
HasKey(d, k) == k \in DOMAIN d
Get(d, k, default) == IF HasKey(d, k) THEN d[k] ELSE default

StatusKeys == {"domain_china_status", "second_level_china_status", "ns_china_status"}

\* should_add_directly without the name-server branch of lines 207-208.
DirectWithoutNs(check_result) ==
    IF ~(StatusKeys \subseteq DOMAIN check_result) THEN FALSE
    ELSE check_result.domain_china_status \/ check_result.second_level_china_status

\* should_add_directly: a missing key raises KeyError, which returns False.
should_add_directly(check_result) ==
    IF ~(StatusKeys \subseteq DOMAIN check_result) THEN FALSE
    ELSE LET domain_china == check_result.domain_china_status
             second_level_china == check_result.second_level_china_status
             ns_china == check_result.ns_china_status
             has_china_ip == domain_china \/ second_level_china
         IN  IF has_china_ip THEN TRUE
             ELSE IF ~has_china_ip /\ ns_china THEN TRUE
             ELSE FALSE

\* should_ask_confirmation
should_ask_confirmation(check_result) == FALSE

\* should_reject with "not has_china_ip and not ns_china" written "not has_china_ip".
RejectWithoutNs(check_result) ==
    IF ~(StatusKeys \subseteq DOMAIN check_result) THEN FALSE
    ELSE ~(check_result.domain_china_status \/ check_result.second_level_china_status)

\* should_reject with "not has_china_ip and not ns_china" written with "or".
RejectEitherMissing(check_result) ==
    IF ~(StatusKeys \subseteq DOMAIN check_result) THEN FALSE
    ELSE ~(check_result.domain_china_status \/ check_result.second_level_china_status)
            \/ ~check_result.ns_china_status

\* should_reject: a missing key raises KeyError, which returns False.
should_reject(check_result) ==
    IF ~(StatusKeys \subseteq DOMAIN check_result) THEN FALSE
    ELSE LET domain_china == check_result.domain_china_status
             second_level_china == check_result.second_level_china_status
             ns_china == check_result.ns_china_status
             has_china_ip == domain_china \/ second_level_china
         IN  ~has_china_ip /\ ~ns_china

\* get_target_domain_to_add, lines 260-265 replaced by "return target_domain".
TargetIgnoringStatus(check_result) ==
    IF DOMAIN check_result = {} THEN NoDomain
    ELSE LET second_level_domain == Get(check_result, "second_level_domain", NoDomain)
             normalized_domain == Get(check_result, "normalized_domain", NoDomain)
         IN  IF second_level_domain # NoDomain THEN second_level_domain
             ELSE normalized_domain

\* get_target_domain_to_add
get_target_domain_to_add(check_result) ==
    IF DOMAIN check_result = {} THEN NoDomain
    ELSE LET second_level_domain == Get(check_result, "second_level_domain", NoDomain)
             normalized_domain == Get(check_result, "normalized_domain", NoDomain)
             domain_china == Get(check_result, "domain_china_status", FALSE)
             second_level_china == Get(check_result, "second_level_china_status", FALSE)
             ns_china == Get(check_result, "ns_china_status", FALSE)
             target_domain == IF second_level_domain # NoDomain
                              THEN second_level_domain ELSE normalized_domain
             has_china_ip == domain_china \/ second_level_china
         IN  IF has_china_ip \/ ns_china THEN target_domain ELSE NoDomain

\* should_add_proxy with ">" written ">=".
ProxyOnTie(check_result) ==
    Get(check_result, "foreign_total_count", 0) >= Get(check_result, "china_total_count", 0)

\* should_add_proxy
should_add_proxy(check_result) ==
    LET china_total == Get(check_result, "china_total_count", 0)
        foreign_total == Get(check_result, "foreign_total_count", 0)
    IN  foreign_total > china_total

\* get_target_domain_to_add_proxy gated on the direct-path status flags, as
\* get_target_domain_to_add is.
ProxyTargetGated(check_result) == get_target_domain_to_add(check_result)

\* get_target_domain_to_add_proxy
get_target_domain_to_add_proxy(check_result) ==
    LET second_level_domain == Get(check_result, "second_level_domain", NoDomain)
        normalized_domain == Get(check_result, "normalized_domain", NoDomain)
    IN  IF second_level_domain # NoDomain THEN second_level_domain ELSE normalized_domain

(***************************************************************************)
(* dns_service.py: the wire format the decoders read.  Offsets are counted *)
(* from 0 as in the code; d[off + 1] is the byte at offset off.            *)
(***************************************************************************)
MaxAnswers == 2   \* most resource records in a generated valid response

\* struct.unpack('!H'): the big-endian 16-bit number at offset off.
U16(d, off) == d[off + 1] * 256 + d[off + 2]
\* struct.pack('!H')
Pack16(n) == <<n \div 256, n % 256>>

RECURSIVE Flatten(_)
Flatten(ss) == IF ss = <<>> THEN <<>> ELSE Head(ss) \o Flatten(Tail(ss))

\* A name as length-prefixed labels, without its terminator.
RECURSIVE WireLabels(_)
WireLabels(ls) ==
    IF ls = <<>> THEN <<>> ELSE <<Len(Head(ls))>> \o Head(ls) \o WireLabels(Tail(ls))

\* The name a.bc that the messages ask about, as labels of ASCII bytes.
QName == << <<97>>, <<98, 99>> >>
\* A name server label, "n".
NsLabel == <<110>>

TypeA == 1
TypeNS == 2
QNameOffset == 12   \* the question name starts right after the 12-byte header

\* The 12-byte header of a response with ancount answers (lines 254-255).
Header(ancount) == <<18, 52, 129, 128, 0, 1>> \o Pack16(ancount) \o <<0, 0, 0, 0>>

\* The echoed question: QNAME, QTYPE, QCLASS (lines 261-274).
Question(qtype) == WireLabels(QName) \o <<0>> \o Pack16(qtype) \o <<0, 1>>

\* A compression pointer to offset off.
Pointer(off) == <<192 + (off \div 256), off % 256>>

\* One resource record: NAME, TYPE, CLASS, TTL, RDLENGTH, RDATA (lines 283-305).
RR(owner, type, rdata) ==
    owner \o Pack16(type) \o <<0, 1>> \o <<0, 0, 1, 44>> \o Pack16(Len(rdata)) \o rdata

OwnerPointer == Pointer(QNameOffset)
OwnerLiteral == WireLabels(QName) \o <<0>>

\* The records a generated response is made of: what the record carries
\* (kind, owner form, and the address or the name form of its RDATA).  The
\* last one is of a type neither decoder reads (5, a CNAME).
AnswerKinds ==
    {[type |-> TypeA, owner |-> "pointer", ip |-> <<1, 2, 4, 8>>, name |-> "none"],
     [type |-> TypeA, owner |-> "literal", ip |-> <<192, 0, 2, 12>>, name |-> "none"],
     [type |-> TypeNS, owner |-> "pointer", ip |-> <<>>, name |-> "literal"],
     [type |-> TypeNS, owner |-> "literal", ip |-> <<>>, name |-> "compressed"],
     [type |-> TypeNS, owner |-> "pointer", ip |-> <<>>, name |-> "pointer"],
     [type |-> 5, owner |-> "pointer", ip |-> <<>>, name |-> "compressed"]}

\* The RDATA of a record that carries a name, and the name it stands for.
NameRdata(form) ==
    IF form = "literal" THEN WireLabels(<<NsLabel>> \o QName) \o <<0>>
    ELSE IF form = "compressed" THEN WireLabels(<<NsLabel>>) \o Pointer(QNameOffset)
    ELSE Pointer(QNameOffset)

EncodeAnswer(a) ==
    RR(IF a.owner = "pointer" THEN OwnerPointer ELSE OwnerLiteral,
       a.type,
       IF a.type = TypeA THEN a.ip ELSE NameRdata(a.name))

\* A valid response to a query of type qtype carrying the records ans.
EncodeResponse(qtype, ans) ==
    Header(Len(ans)) \o Question(qtype)
        \o Flatten([i \in 1..Len(ans) |-> EncodeAnswer(ans[i])])

ValidAnswerLists == SeqUpTo(AnswerKinds, MaxAnswers)

\* Damaged messages: a valid one-record response with one byte overwritten.
FuzzBytes == {0, 1, 63, 64, 192, 255}
Overwrite(d, pos, b) == [d EXCEPT ![pos] = b]
FuzzBase == {<<a>> : a \in AnswerKinds}
Fuzzed ==
    UNION {{Overwrite(m, pos, b) : pos \in 1..Len(m), b \in FuzzBytes} :
              m \in {EncodeResponse(TypeA, ans) : ans \in FuzzBase}}

\* Damaged messages: one NS record whose RDATA is hand-made.  The RDATA of the
\* first record after a pointer owner starts at RdataOffset.
RdataOffset == QNameOffset + Len(Question(TypeNS)) + 12
CraftedRdata ==
    {Pointer(RdataOffset),                              \* points to itself
     Pointer(RdataOffset + 2) \o Pointer(RdataOffset),  \* two pointers in a cycle
     <<1, 110>> \o Pointer(RdataOffset),                \* a label, then back to it
     Pointer(200),                                      \* points past the end
     <<192>>,                                           \* a pointer cut in half
     <<3, 110>>}                                        \* a label longer than the data
Crafted ==
    {Header(1) \o Question(TypeNS) \o RR(OwnerPointer, TypeNS, rdata) :
        rdata \in CraftedRdata}

\* Responses with A records of a wrong length: the RDATA, and with it the
\* RDLENGTH, has 0, 2 or 5 bytes.  They stand among well-formed A records
\* and NS records with a literal name.
WrongLengthA ==
    {[type |-> TypeA, owner |-> "pointer", ip |-> rdata, name |-> "none"] :
        rdata \in {<<>>, <<1, 2>>, <<1, 2, 4, 8, 9>>}}
WrongLengthLists ==
    {ans \in SeqUpTo(WrongLengthA
                        \cup {a \in AnswerKinds : a.type = TypeA \/ a.name = "literal"},
                     MaxAnswers + 1) :
        \E i \in 1..Len(ans) : ans[i] \in WrongLengthA}

(***************************************************************************)
(* dns_service.py: _parse_dns_response_a, _parse_dns_response_ns and       *)
(* _parse_domain_name.                                                     *)
(***************************************************************************)
\* Lines 264-269 and 330-335: the loop over the question name.
RECURSIVE SkipQuestionLoop(_, _)
SkipQuestionLoop(d, off) ==
    IF off < Len(d) /\ d[off + 1] # 0
    THEN IF d[off + 1] > 63 THEN off + 2
         ELSE SkipQuestionLoop(d, off + d[off + 1] + 1)
    ELSE off

\* Lines 261-274 and 327-340: the offset of the first answer.
SkipQuestion(d) ==
    LET off == SkipQuestionLoop(d, QNameOffset)
    IN  (IF off < Len(d) /\ d[off + 1] = 0 THEN off + 1 ELSE off) + 4

\* Lines 286-287 and 352-353: the loop over a literal owner name.
RECURSIVE SkipLabels(_, _)
SkipLabels(d, off) ==
    IF off < Len(d) /\ d[off + 1] # 0 THEN SkipLabels(d, off + d[off + 1] + 1) ELSE off

\* Lines 283-288 with every owner name taken for a compression pointer.
SkipNameAPointerOnly(d, off) == off + 2

\* Lines 283-288: the A decoder steps over the owner name at off < len(d).
SkipNameA(d, off) ==
    IF d[off + 1] >= 64 THEN off + 2 ELSE SkipLabels(d, off) + 1

\* Lines 349-355: the NS decoder steps over the owner name at off < len(d).
SkipNameNS(d, off) ==
    IF d[off + 1] >= 64 THEN off + 2
    ELSE LET e == SkipLabels(d, off) IN IF e < Len(d) THEN e + 1 ELSE e

\* '.'.join(str(b) for b in ip_bytes): the four octets (lines 301-302).
IpString(d, off) == SubSeq(d, off + 1, off + 4)

\* bytes.decode('ascii', errors='ignore'): bytes above 127 are dropped.
DecodeAscii(bs) == SelectSeq(bs, LAMBDA b : b < 128)

\* '.'.join(labels): the characters of the name, 46 is the dot (line 408).
RECURSIVE JoinLabels(_)
JoinLabels(ls) ==
    IF ls = <<>> THEN <<>>
    ELSE IF Len(ls) = 1 THEN ls[1]
    ELSE ls[1] \o <<46>> \o JoinLabels(Tail(ls))

\* "except Exception" of lines 309, 376 and 411 with a narrower class.
CatchesStructErrorOnly(exc) == exc = "struct.error"

\* "except Exception": lines 309, 376 and 411 catch every exception class.
Catches(exc) == exc \in {"IndexError", "struct.error", "UnicodeDecodeError"}

\* Lines 305 and 372: offset += rd_length.
AfterRdata(off, rdlen) == off + rdlen

\* Line 300 without the test of rd_length.
IsARecordAnyLength(d, rr_type, rdlen, off) == rr_type = TypeA /\ off + 4 <= Len(d)

\* Line 300: the record is read as an address.
IsARecord(d, rr_type, rdlen, off) ==
    rr_type = TypeA /\ rdlen = 4 /\ off + 4 <= Len(d)

\* Line 367 without the bound on rd_length.
IsNSRecordUnbounded(d, rr_type, rdlen, off) == rr_type = TypeNS

\* Line 367: the record is read as a name.
IsNSRecord(d, rr_type, rdlen, off) == rr_type = TypeNS /\ off + rdlen <= Len(d)

vars == <<clsVars, decVars, qryVars, fnVars, lifeVars, ghVars, botVars>>

(***************************************************************************)
(* The classifier as a state machine: one step per awaited resolver call.  *)
(***************************************************************************)
NoPrev == <<>>

\* What the caller reads off a result with the selectors.
Selected(r) ==
    [normalized_domain |-> Get(r, "normalized_domain", NoDomain),
     second_level_domain |-> Get(r, "second_level_domain", NoDomain),
     direct |-> should_add_directly(r),
     proxy_target |-> get_target_domain_to_add_proxy(r)]

ClsIdle ==
    /\ pc = "idle" /\ result = NoResult /\ ns_summary = <<>> /\ nsIdx = 0
    /\ china_ns_count = 0 /\ total_ns_count = 0 /\ calls = <<>> /\ prev = NoPrev
    /\ raw_input = <<>> /\ geo_lookups = 0

DecOff ==
    /\ answers = <<>> /\ wellformed = FALSE /\ msg = <<>> /\ cut = 0 /\ rtype = "A"
    /\ run = 0 /\ data = <<>> /\ dpc = "off" /\ answer_count = 0 /\ offset = 0
    /\ rd_length = 0 /\ records = <<>> /\ noffset = 0 /\ labels = <<>> /\ jumps = 0
    /\ errors = <<>> /\ raised = FALSE /\ out1 = <<>>

QryOff ==
    /\ qkind = "A" /\ order = <<>> /\ okAt = <<>> /\ latency = <<>> /\ sysOk = FALSE
    /\ qpc = "off" /\ idx = 0 /\ attempt = 0 /\ inflight = {} /\ sent = <<>>
    /\ sysCalls = 0 /\ lastFailure = "none" /\ qres = <<>>
    /\ qdomain = <<>> /\ query_data = <<>> /\ sentData = <<>>
    /\ winner = "none" /\ qraised = FALSE

FnOff == fname = "none" /\ farg = <<>> /\ fret = <<>> /\ fpc = "off"

GhOff ==
    /\ repo = FALSE /\ file = <<>> /\ commits = <<>> /\ gcall = <<>>
    /\ gpc = "off" /\ content = <<>> /\ prepared = <<>> /\ file_sha = <<>>
    /\ gresult = <<>> /\ api = <<>> /\ external = FALSE /\ followup = FALSE
    /\ before = <<>>

BotOff ==
    /\ user_state = <<>> /\ user_add_history = <<>> /\ now = 0 /\ messages = {}
    /\ direct_rules = <<>> /\ proxy_rules = <<>> /\ last_add = <<>> /\ reply = "none"

LifeOff ==
    /\ driver = "off" /\ doh_servers = {} /\ ns_doh_servers = {}
    /\ session = "absent" /\ app = "built" /\ user_states = FALSE
    /\ lpc = "off" /\ lraised = "none" /\ lcalls = <<>>

Init ==
    /\ ClsIdle /\ reader \in BOOLEAN /\ inputs = RawInputs /\ track = FALSE
    /\ DecOff /\ QryOff /\ FnOff /\ LifeOff /\ GhOff /\ BotOff

InitPair ==
    /\ ClsIdle /\ reader \in BOOLEAN /\ inputs = PairInputs /\ track = TRUE
    /\ DecOff /\ QryOff /\ FnOff /\ LifeOff /\ GhOff /\ BotOff

\* Line 26 with the test left out: no normalized domain counts as missing.
NeverNone(normalized_domain) == FALSE

\* Line 26: "if not normalized_domain", None and "" alike.
IsNone(normalized_domain) == normalized_domain = NoDomain

\* Lines 23-53: normalize, derive the second-level domain, build the dict.
StartCheck ==
    /\ pc = "idle"
    /\ \E domain \in inputs :
        LET normalized_domain == normalize_domain(domain)
            second_level == extract_second_level_domain(normalized_domain)
        IN  /\ raw_input' = domain
            /\ IF IsNone(normalized_domain)
               THEN /\ result' = ErrorResult("invalid_domain")
                    /\ pc' = "returned"
               ELSE /\ result' = InitialResult(domain, normalized_domain, second_level)
                    /\ pc' = "query_domain"
    /\ calls' = <<>>
    /\ geo_lookups' = 0
    /\ UNCHANGED <<reader, ns_summary, nsIdx, china_ns_count, total_ns_count, inputs,
                   track, prev>>
    /\ UNCHANGED <<decVars, qryVars, fnVars, lifeVars, ghVars, botVars>>

\* Line 78 without its second test.
QueriesAnySecondLevel(second_level, normalized_domain) == second_level # NoDomain

\* Line 78: "if second_level and second_level != normalized_domain".
QueriesSecondLevel(second_level, normalized_domain) ==
    second_level # NoDomain /\ second_level # normalized_domain

\* Lines 55-75: A lookup of the normalized domain; line 78 decides whether
\* the second-level domain is looked up next.
QueryDomain ==
    /\ pc = "query_domain"
    /\ \E domain_ips \in AAnswers :
        /\ result' = TallyDomain(reader, result, domain_ips)
        /\ geo_lookups' = geo_lookups + Len(domain_ips)
    /\ calls' = Append(calls, <<"A", result.normalized_domain>>)
    /\ pc' = IF QueriesSecondLevel(result.second_level_domain, result.normalized_domain)
             THEN "query_second_level" ELSE "query_ns"
    /\ UNCHANGED <<reader, ns_summary, nsIdx, china_ns_count, total_ns_count, inputs,
                   track, prev, raw_input>>
    /\ UNCHANGED <<decVars, qryVars, fnVars, lifeVars, ghVars, botVars>>

\* Lines 77-97: A lookup of the second-level domain.
QuerySecondLevel ==
    /\ pc = "query_second_level"
    /\ \E second_level_ips \in AAnswers :
        /\ result' = TallySecondLevel(reader, result, second_level_ips)
        /\ geo_lookups' = geo_lookups + Len(second_level_ips)
    /\ calls' = Append(calls, <<"A", result.second_level_domain>>)
    /\ pc' = "query_ns"
    /\ UNCHANGED <<reader, ns_summary, nsIdx, china_ns_count, total_ns_count, inputs,
                   track, prev, raw_input>>
    /\ UNCHANGED <<decVars, qryVars, fnVars, lifeVars, ghVars, botVars>>

\* Lines 99-109 and 149-158: NS lookup; without name servers the result is
\* completed at once.
QueryNs ==
    /\ pc = "query_ns"
    /\ LET ns_domain == IF result.second_level_domain # NoDomain
                        THEN result.second_level_domain
                        ELSE result.normalized_domain
       IN  /\ calls' = Append(calls, <<"NS", ns_domain>>)
           /\ \E ns_servers \in NSAnswers :
                IF ns_servers # <<>>
                THEN /\ result' = [result EXCEPT !.ns_servers = ns_servers]
                     /\ nsIdx' = 1
                     /\ pc' = "query_ns_host"
                ELSE /\ result' = Totals([result EXCEPT
                            !.ns_servers = ns_servers,
                            !.details = Append(@, <<"ns", "unresolved">>)])
                     /\ nsIdx' = 0
                     /\ pc' = "returned"
    /\ UNCHANGED <<reader, ns_summary, china_ns_count, total_ns_count, inputs, track, prev,
                   raw_input, geo_lookups>>
    /\ UNCHANGED <<decVars, qryVars, fnVars, lifeVars, ghVars, botVars>>

\* Lines 111-126: A lookup of one name server; after the last one lines
\* 128-158 complete the result.
QueryNsHost ==
    /\ pc = "query_ns_host"
    /\ LET ns == result.ns_servers[nsIdx]
       IN  /\ calls' = Append(calls, <<"A", ns>>)
           /\ \E ns_ips \in AAnswers :
                /\ geo_lookups' = geo_lookups + Len(ns_ips)
                /\ LET t == TallyNsHost(reader, result, ns_summary, china_ns_count,
                                        total_ns_count, ns, ns_ips)
                   IN  IF nsIdx < Len(result.ns_servers)
                       THEN /\ result' = t.result
                            /\ ns_summary' = t.ns_summary
                            /\ china_ns_count' = t.china_ns_count
                            /\ total_ns_count' = t.total_ns_count
                            /\ nsIdx' = nsIdx + 1
                            /\ pc' = "query_ns_host"
                       ELSE /\ result' = Totals(FinishNs(t.result, t.ns_summary,
                                                         t.china_ns_count, t.total_ns_count))
                            /\ ns_summary' = <<>>
                            /\ china_ns_count' = 0
                            /\ total_ns_count' = 0
                            /\ nsIdx' = 0
                            /\ pc' = "returned"
    /\ UNCHANGED <<reader, inputs, track, prev, raw_input>>
    /\ UNCHANGED <<decVars, qryVars, fnVars, lifeVars, ghVars, botVars>>

\* The caller takes the result; the next message starts a new classification.
HandleResult ==
    /\ pc = "returned"
    /\ pc' = "idle"
    /\ prev' = IF track THEN <<Selected(result)>> ELSE prev
    /\ result' = NoResult
    /\ calls' = <<>>
    /\ raw_input' = <<>>
    /\ geo_lookups' = 0
    /\ UNCHANGED <<reader, ns_summary, nsIdx, china_ns_count, total_ns_count, inputs, track>>
    /\ UNCHANGED <<decVars, qryVars, fnVars, lifeVars, ghVars, botVars>>

Next ==
    \/ StartCheck
    \/ QueryDomain
    \/ QuerySecondLevel
    \/ QueryNs
    \/ QueryNsHost
    \/ HandleResult

Spec == Init /\ [][Next]_vars

SpecPair == InitPair /\ [][Next]_vars

(***************************************************************************)
(* Claims about the decision predicates and the target selectors.          *)
(***************************************************************************)
\* check_domain_comprehensive has returned a classification result, not an error.
Classified == pc = "returned" /\ ~HasKey(result, "error")

\* The list holds an IP that the geo lookup attributes to China.
HasDomestic(ips) ==
    \E i \in 1..Len(ips) : get_location_info(reader, ips[i]).is_china

\* How many IPs of the list the geo lookup attributes to China.
DomesticIn(ips) ==
    Cardinality({i \in 1..Len(ips) : get_location_info(reader, ips[i]).is_china})

\* The second-level domain when one was derived, else the normalized domain.
SecondLevelElseNormalized(r) ==
    IF Get(r, "second_level_domain", NoDomain) # NoDomain
    THEN r.second_level_domain
    ELSE Get(r, "normalized_domain", NoDomain)

\* C1: for every classification result, should_add_directly is true iff the
\* domain IPs, the second-level IPs or the name-server IPs hold at least one
\* domestic IP.
C1_DirectIffSomeDomestic ==
    Classified =>
        (should_add_directly(result) <=>
            \/ HasDomestic(result.domain_ips)
            \/ HasDomestic(result.second_level_ips)
            \/ HasDomestic(result.ns_ips))

\* C1 witness: added directly on the strength of a domestic name-server IP alone.
C1_Witness ==
    /\ Classified
    /\ should_add_directly(result)
    /\ result.domain_ips # <<>> /\ ~HasDomestic(result.domain_ips)
    /\ ~HasDomestic(result.second_level_ips)
    /\ HasDomestic(result.ns_ips)

\* C2: for every classification result, should_reject is true iff none of the
\* three categories holds a domestic IP.
C2_RejectIffNoDomestic ==
    Classified =>
        (should_reject(result) <=>
            /\ ~HasDomestic(result.domain_ips)
            /\ ~HasDomestic(result.second_level_ips)
            /\ ~HasDomestic(result.ns_ips))

\* C2 witness: rejected with foreign IPs in all three categories.
C2_Witness ==
    /\ Classified
    /\ should_reject(result)
    /\ result.domain_ips # <<>>
    /\ result.second_level_ips # <<>>
    /\ result.ns_ips # <<>>

\* C3: for every classification result, should_add_proxy is true iff the
\* foreign IPs of the three categories together outnumber the domestic ones;
\* equal numbers give false.
C3_ProxyIffForeignMajority ==
    Classified =>
        LET all_ips == result.domain_ips \o result.second_level_ips \o result.ns_ips
            domestic == DomesticIn(all_ips)
            foreign == Len(all_ips) - domestic
        IN  should_add_proxy(result) <=> foreign > domestic

\* C3 witness: as many foreign as domestic IPs, not zero, and no proxy advice.
C3_Witness ==
    /\ Classified
    /\ result.china_total_count = result.foreign_total_count
    /\ result.china_total_count > 0
    /\ ~should_add_proxy(result)

\* C4: get_target_domain_to_add returns a domain exactly when
\* should_add_directly holds, and then it is the second-level domain if one
\* was derived, else the normalized domain.
C4_DirectTarget ==
    pc = "returned" =>
        /\ (get_target_domain_to_add(result) # NoDomain) <=> should_add_directly(result)
        /\ should_add_directly(result) =>
               get_target_domain_to_add(result) = SecondLevelElseNormalized(result)

\* C4 witness: a subdomain is checked and its second-level domain is the target.
C4_Witness ==
    /\ Classified
    /\ should_add_directly(result)
    /\ result.second_level_domain # result.normalized_domain
    /\ get_target_domain_to_add(result) = result.second_level_domain

\* C5: two classification results with the same normalized and second-level
\* domain have the same proxy target, whatever their domestic flags: the
\* second-level domain when one was derived, else the normalized domain.
C5_ProxyTargetIndependent ==
    (/\ pc = "returned"
     /\ prev # NoPrev
     /\ prev[1].normalized_domain = Get(result, "normalized_domain", NoDomain)
     /\ prev[1].second_level_domain = Get(result, "second_level_domain", NoDomain))
    => /\ get_target_domain_to_add_proxy(result) = prev[1].proxy_target
       /\ get_target_domain_to_add_proxy(result) = SecondLevelElseNormalized(result)

\* C5 witness: the same domain classified twice, once with and once without a
\* domestic IP.
C5_Witness ==
    /\ Classified
    /\ prev # NoPrev
    /\ prev[1].normalized_domain = result.normalized_domain
    /\ prev[1].second_level_domain = result.second_level_domain
    /\ prev[1].direct
    /\ ~should_add_directly(result)
    /\ get_target_domain_to_add_proxy(result) # NoDomain

(***************************************************************************)
(* The decoders as a state machine.  Run 1 decodes the first cut bytes of  *)
(* msg; for a valid msg cut short, run 2 then decodes all of it.           *)
(***************************************************************************)
QType(t) == IF t = "A" THEN TypeA ELSE TypeNS

InitDecode ==
    /\ ClsIdle /\ reader = FALSE /\ inputs = {} /\ track = FALSE
    /\ QryOff /\ FnOff /\ LifeOff /\ GhOff /\ BotOff
    /\ rtype \in {"A", "NS"}
    /\ \/ /\ wellformed = TRUE
          /\ answers \in ValidAnswerLists
          /\ msg = EncodeResponse(QType(rtype), answers)
          /\ cut \in 0..Len(msg)
       \/ /\ wellformed = FALSE
          /\ answers = <<>>
          /\ msg \in Fuzzed \cup Crafted
          /\ cut = Len(msg)
       \/ /\ wellformed = FALSE
          /\ answers \in WrongLengthLists
          /\ msg = EncodeResponse(QType(rtype), answers)
          /\ cut = Len(msg)
    /\ run = 1
    /\ data = SubSeq(msg, 1, cut)
    /\ dpc = "start"
    /\ answer_count = 0 /\ offset = 0 /\ rd_length = 0 /\ records = <<>>
    /\ noffset = 0 /\ labels = <<>> /\ jumps = 0
    /\ errors = <<>> /\ raised = FALSE /\ out1 = <<>>

decFixed == <<answers, wellformed, msg, cut, rtype>>

\* Lines 250-274 and 316-340: the header and the question.
ParseHeader ==
    /\ dpc = "start"
    /\ IF Len(data) < 12 \/ U16(data, 6) = 0
       THEN /\ dpc' = "done"
            /\ UNCHANGED <<answer_count, offset>>
       ELSE /\ answer_count' = U16(data, 6)
            /\ offset' = SkipQuestion(data)
            /\ dpc' = "record"
    /\ UNCHANGED <<decFixed, run, data, rd_length, records, noffset, labels, jumps,
                   errors, raised, out1>>
    /\ UNCHANGED <<clsVars, qryVars, fnVars, lifeVars, ghVars, botVars>>

\* Lines 278-280 and 307, 344-346 and 374: the loop is over, or the offset
\* has left the message; the list is returned.
ReturnRecords ==
    /\ dpc = "record"
    /\ answer_count = 0 \/ offset >= Len(data)
    /\ dpc' = "done"
    /\ UNCHANGED <<decFixed, run, data, answer_count, offset, rd_length, records,
                   noffset, labels, jumps, errors, raised, out1>>
    /\ UNCHANGED <<clsVars, qryVars, fnVars, lifeVars, ghVars, botVars>>

\* Lines 282-305 and 348-372: one resource record.  An NS record hands its
\* RDATA to _parse_domain_name.
ParseRecord ==
    /\ dpc = "record"
    /\ answer_count > 0 /\ offset < Len(data)
    /\ LET named == IF rtype = "A" THEN SkipNameA(data, offset)
                    ELSE SkipNameNS(data, offset)
       IN  IF named + 10 > Len(data)
           THEN /\ dpc' = "done"
                /\ UNCHANGED <<answer_count, offset, rd_length, records, noffset>>
           ELSE LET rr_type == U16(data, named)
                    rdlen == U16(data, named + 8)
                    off == named + 10
                IN  IF rtype = "NS" /\ IsNSRecord(data, rr_type, rdlen, off)
                    THEN /\ dpc' = "name"
                         /\ noffset' = off
                         /\ offset' = off
                         /\ rd_length' = rdlen
                         /\ UNCHANGED <<answer_count, records>>
                    ELSE /\ records' =
                              IF rtype = "A" /\ IsARecord(data, rr_type, rdlen, off)
                              THEN Append(records, IpString(data, off))
                              ELSE records
                         /\ offset' = AfterRdata(off, rdlen)
                         /\ answer_count' = answer_count - 1
                         /\ dpc' = "record"
                         /\ UNCHANGED <<rd_length, noffset>>
    /\ labels' = <<>>
    /\ jumps' = 0
    /\ UNCHANGED <<decFixed, run, data, errors, raised, out1>>
    /\ UNCHANGED <<clsVars, qryVars, fnVars, lifeVars, ghVars, botVars>>

\* The byte _parse_domain_name looks at (line 388).
NameLength == data[noffset + 1]

\* Lines 392-399: a compression pointer is followed.  The model stops after
\* len(data) + 1 pointers: by then some pointer has been followed twice, and
\* the loop, whose course depends on the offset alone, never ends.
FollowPointer ==
    /\ dpc = "name"
    /\ noffset < Len(data)
    /\ NameLength >= 192
    /\ noffset + 1 < Len(data)
    /\ jumps <= Len(data)
    /\ noffset' = (NameLength - 192) * 256 + data[noffset + 2]
    /\ jumps' = jumps + 1
    /\ UNCHANGED <<decFixed, run, data, dpc, answer_count, offset, rd_length, records,
                   labels, errors, raised, out1>>
    /\ UNCHANGED <<clsVars, qryVars, fnVars, lifeVars, ghVars, botVars>>

\* Lines 400-406: a label is read.
ReadLabel ==
    /\ dpc = "name"
    /\ noffset < Len(data)
    /\ NameLength # 0 /\ NameLength < 192
    /\ noffset + 1 + NameLength <= Len(data)
    /\ labels' = Append(labels,
                        DecodeAscii(SubSeq(data, noffset + 2, noffset + 1 + NameLength)))
    /\ noffset' = noffset + 1 + NameLength
    /\ UNCHANGED <<decFixed, run, data, dpc, answer_count, offset, rd_length, records,
                   jumps, errors, raised, out1>>
    /\ UNCHANGED <<clsVars, qryVars, fnVars, lifeVars, ghVars, botVars>>

\* Lines 387-391, 402-403, 408-409 and 369-372: the loop of
\* _parse_domain_name ends, the name is returned and kept when not empty.
ReturnName ==
    /\ dpc = "name"
    /\ \/ noffset >= Len(data)
       \/ /\ noffset < Len(data)
          /\ \/ NameLength = 0
             \/ NameLength < 192 /\ noffset + 1 + NameLength > Len(data)
    /\ LET domain == JoinLabels(labels)
       IN  records' = IF domain # <<>> THEN Append(records, domain) ELSE records
    /\ offset' = AfterRdata(offset, rd_length)
    /\ answer_count' = answer_count - 1
    /\ dpc' = "record"
    /\ UNCHANGED <<decFixed, run, data, rd_length, noffset, labels, jumps, errors,
                   raised, out1>>
    /\ UNCHANGED <<clsVars, qryVars, fnVars, lifeVars, ghVars, botVars>>

\* Line 397 reads data[offset + 1] past the end: IndexError.  Line 411
\* catches it and returns "", so the record is dropped; were it not caught
\* there, line 376 would return []; were it not caught there either, it
\* would leave the decoder.
NameIndexError ==
    /\ dpc = "name"
    /\ noffset < Len(data)
    /\ NameLength >= 192
    /\ noffset + 1 >= Len(data)
    /\ IF Catches("IndexError")
       THEN /\ errors' = Append(errors, "parse_domain_name")
            /\ offset' = AfterRdata(offset, rd_length)
            /\ answer_count' = answer_count - 1
            /\ dpc' = "record"
            /\ UNCHANGED <<records, raised>>
       ELSE /\ dpc' = "done"
            /\ raised' = TRUE
            /\ UNCHANGED <<errors, records, offset, answer_count>>
    /\ UNCHANGED <<decFixed, run, data, rd_length, noffset, labels, jumps, out1>>
    /\ UNCHANGED <<clsVars, qryVars, fnVars, lifeVars, ghVars, botVars>>

\* The first cut bytes of a valid message are decoded; now all of it is.
DecodeWhole ==
    /\ dpc = "done"
    /\ run = 1 /\ wellformed /\ cut < Len(msg) /\ ~raised
    /\ out1' = records
    /\ run' = 2
    /\ data' = msg
    /\ dpc' = "start"
    /\ records' = <<>>
    /\ answer_count' = 0 /\ offset' = 0 /\ rd_length' = 0
    /\ noffset' = 0 /\ labels' = <<>> /\ jumps' = 0
    /\ UNCHANGED <<decFixed, errors, raised>>
    /\ UNCHANGED <<clsVars, qryVars, fnVars, lifeVars, ghVars, botVars>>

NextDecode ==
    \/ ParseHeader
    \/ ReturnRecords
    \/ ParseRecord
    \/ FollowPointer
    \/ ReadLabel
    \/ ReturnName
    \/ NameIndexError
    \/ DecodeWhole

SpecDecode == InitDecode /\ [][NextDecode]_vars

(***************************************************************************)
(* Claims about the decoders.                                              *)
(***************************************************************************)
\* a is b with some elements left out: the same elements in the same order.
RECURSIVE IsSubsequence(_, _)
IsSubsequence(a, b) ==
    IF a = <<>> THEN TRUE
    ELSE IF b = <<>> THEN FALSE
    ELSE IF Head(a) = Head(b) THEN IsSubsequence(Tail(a), Tail(b))
    ELSE IsSubsequence(a, Tail(b))

\* C6: name decoding follows compression pointers only a bounded number of
\* times (at most as many as the message has bytes), so that decoding returns
\* for every message, also one whose pointer points to itself.
C6_PointerFollowingBounded == jumps <= Len(data)

C8_PrefixYieldsSubsequence ==
    wellformed =>
        /\ ~raised /\ errors = <<>>
        /\ dpc = "done" \/ ENABLED NextDecode
        /\ (run = 2 /\ dpc = "done") => IsSubsequence(out1, records)

\* C8 witness: a response with two name servers cut inside the second record:
\* the prefix yields the first name only.
C8_Witness ==
    /\ wellformed /\ rtype = "NS" /\ run = 2 /\ dpc = "done"
    /\ Len(records) = 2 /\ Len(out1) = 1
    /\ out1[1] = records[1]

\* The addresses of the A records a response was built from.
AnswerIps == [i \in 1..Len(answers) |-> answers[i].ip]

\* C9: decoding a well-formed response whose answer section carries A records
\* only, with pointer or literal owner names, returns exactly their addresses:
\* same order, same multiplicity.
C9_ARoundTrip ==
    (/\ wellformed /\ rtype = "A" /\ dpc = "done" /\ data = msg
     /\ \A i \in 1..Len(answers) : answers[i].type = TypeA)
    => records = AnswerIps

\* C9 witness: two A records, the first with a literal owner name, the second
\* with a compressed one, decoded in that order.
C9_Witness ==
    /\ wellformed /\ rtype = "A" /\ dpc = "done" /\ data = msg
    /\ Len(answers) = 2
    /\ answers[1].type = TypeA /\ answers[1].owner = "literal"
    /\ answers[2].type = TypeA /\ answers[2].owner = "pointer"
    /\ records = <<answers[1].ip, answers[2].ip>>

(***************************************************************************)
(* dns_service.py: query_a_record, query_ns_records, _query_doh_server,    *)
(* _query_doh_server_ns and _query_ns_system_dns.                          *)
(***************************************************************************)
\* config.py: the names of DOH_SERVERS and of NS_DOH_SERVERS.
DohServers == {"alibaba", "tencent", "cloudflare"}
NsDohServers == {"cloudflare", "google", "quad9"}
Servers(kind) == IF kind = "A" THEN DohServers ELSE NsDohServers

MaxRetriesA == 2    \* max_retries of _query_doh_server
MaxRetriesNS == 3   \* max_retries of _query_doh_server_ns
\* Line 151 with the value of line 200.
SameRetries(kind) == MaxRetriesNS

max_retries(kind) == IF kind = "A" THEN MaxRetriesA ELSE MaxRetriesNS

\* The orders a dict of these servers can list them in.
Orders(S) == {o \in [1..Cardinality(S) -> S] : \A i, j \in 1..Cardinality(S) :
                                                   i # j => o[i] # o[j]}

\* The non-empty answer a server gives, told apart by the server's name.
Answer(server) == <<server>>
\* The non-empty answer of the system resolver.
SystemAnswer == <<"system">>

\* How an attempt fails: status 200 with no record decoded (lines 176-181),
\* asyncio.TimeoutError (185-189), any other exception, a status other than
\* 200 included (183, 190-194).
FailureKinds == {"empty", "timeout", "error"}

\* Line 32 and line 56 without the test: whatever the server call returned
\* is returned.
ReturnsAnything(ans) == TRUE

\* Lines 32-34 and 56-58 left out: the loop never returns early.
ReturnsNothing(ans) == FALSE

\* Lines 32 and 56: "if ips:" / "if ns_servers:" returns a non-empty answer.
ReturnsAnswer(ans) == ans # <<>>

\* Lines 178, 187 and 192, 227, 236 and 241 with the test always false: a
\* failed attempt is never followed by another.
NeverRetry(att, kind) == FALSE

\* Lines 178, 187 and 192, 227, 236 and 241: "attempt < max_retries - 1",
\* another attempt follows a failed one.
MayRetry(att, kind) == att < max_retries(kind) - 1

\* "except Exception" of lines 35, 42 and 190, 59, 73 and 239 narrowed to
\* the timeout that lines 185 and 234 name.
CatchesTimeoutOnly(exc) == exc = "timeout"

\* "except Exception" of lines 35, 42 and 190, 59, 73 and 239: every
\* exception class an attempt ends with is caught.
CatchesException(exc) == exc \in {"timeout", "error"}

\* Lines 63-65 in both calls: the system resolver is the last resort of
\* every call.
FallbackAlways(kind) == TRUE

\* Lines 38-40 against lines 63-71: only query_ns_records goes on to the
\* system resolver.
UsesSystemFallback(kind) == kind = "NS"

\* Line 50 passing True as line 22 does by default.
UseEdnsAlways(kind) == TRUE

\* use_edns_china: True by default in query_a_record (line 22), False in
\* the call of line 50.
UseEdns(kind) == kind = "A"

\* Lines 105-115 with additional_rrs = 1 whatever use_edns_china.
QueryHeaderOneAdditional(use_edns_china) ==
    Pack16(4660) \o Pack16(256) \o Pack16(1) \o Pack16(0) \o Pack16(0) \o Pack16(1)

\* Lines 105-115: the 12-byte header; one additional record with EDNS.
QueryHeader(use_edns_china) ==
    Pack16(4660) \o Pack16(256) \o Pack16(1) \o Pack16(0) \o Pack16(0)
        \o Pack16(IF use_edns_china THEN 1 ELSE 0)

\* Lines 126-141: the OPT record with the client-subnet option, as packed.
EdnsChina ==
    <<0>> \o Pack16(41) \o Pack16(4096) \o Pack16(0) \o Pack16(8)
        \o Pack16(8) \o Pack16(4) \o Pack16(1) \o <<24, 0>> \o <<219, 0, 0>>

\* Lines 102-143: header, question, and the OPT record when asked for.
build_dns_query(domain, use_edns_china, record_type) ==
    QueryHeader(use_edns_china)
        \o WireLabels(domain) \o <<0>> \o Pack16(record_type) \o Pack16(1)
        \o (IF use_edns_china THEN EdnsChina ELSE <<>>)

\* The domains the calls ask about: a.bc and n.a.bc.
QueryDomains == {QName, <<NsLabel>> \o QName}

InitQuery ==
    /\ ClsIdle /\ reader = FALSE /\ inputs = {} /\ track = FALSE
    /\ DecOff /\ FnOff /\ LifeOff /\ GhOff /\ BotOff
    /\ qkind \in {"A", "NS"}
    /\ order \in Orders(Servers(qkind))
    /\ okAt \in [Servers(qkind) -> 0..MaxRetriesNS]
    /\ latency \in {l \in [Servers(qkind) -> 1..Cardinality(Servers(qkind))] :
                        \A a, b \in Servers(qkind) : a # b => l[a] # l[b]}
    /\ sysOk \in (IF qkind = "NS" THEN BOOLEAN ELSE {FALSE})
    /\ qpc = "start" /\ idx = 0 /\ attempt = 0 /\ inflight = {}
    /\ sent = [s \in Servers(qkind) |-> 0]
    /\ sysCalls = 0 /\ lastFailure = "none" /\ qres = <<>>
    /\ qdomain \in QueryDomains
    /\ query_data = <<>> /\ sentData = <<>>
    /\ winner = "none" /\ qraised = FALSE

qryFixed == <<qkind, order, okAt, latency, sysOk, qdomain>>

\* Lines 26-29 and 50-53: the query is built and the loop over the servers
\* starts with the first one listed.
BeginQuery ==
    /\ qpc = "start"
    /\ idx' = 1
    /\ attempt' = 0
    /\ qpc' = "send"
    /\ query_data' = build_dns_query(qdomain, UseEdns(qkind), QType(qkind))
    /\ UNCHANGED <<qryFixed, inflight, sent, sysCalls, lastFailure, qres, sentData,
                   winner, qraised>>
    /\ UNCHANGED <<clsVars, decVars, fnVars, lifeVars, ghVars, botVars>>

\* Lines 164-172 and 213-221: session.get sends the request of this attempt.
SendRequest ==
    /\ qpc = "send"
    /\ inflight' = inflight \cup {order[idx]}
    /\ sent' = [sent EXCEPT ![order[idx]] = @ + 1]
    /\ qpc' = "wait"
    /\ sentData' = query_data
    /\ UNCHANGED <<qryFixed, idx, attempt, sysCalls, lastFailure, qres, query_data,
                   winner, qraised>>
    /\ UNCHANGED <<clsVars, decVars, fnVars, lifeVars, ghVars, botVars>>

\* The loop of query_a_record / query_ns_records goes on after the server at
\* idx returned ans: lines 32-37 and 38-40, 56-61 and 63-65.
AfterServer(ans) ==
    IF ReturnsAnswer(ans)
    THEN /\ qres' = ans
         /\ qpc' = "returned"
         /\ UNCHANGED <<idx, attempt>>
    ELSE IF idx < Len(order)
    THEN /\ idx' = idx + 1
         /\ attempt' = 0
         /\ qpc' = "send"
         /\ UNCHANGED qres
    ELSE IF UsesSystemFallback(qkind)
    THEN /\ qpc' = "sysdns"
         /\ UNCHANGED <<idx, attempt, qres>>
    ELSE /\ qres' = <<>>
         /\ qpc' = "returned"
         /\ UNCHANGED <<idx, attempt>>

\* Lines 173-177 and 222-226: status 200 and a non-empty list is decoded;
\* _query_doh_server returns it.
ReceiveAnswer ==
    /\ qpc = "wait"
    /\ attempt + 1 = okAt[order[idx]]
    /\ inflight' = inflight \ {order[idx]}
    /\ winner' = order[idx]
    /\ AfterServer(Answer(order[idx]))
    /\ UNCHANGED <<qryFixed, sent, sysCalls, lastFailure, query_data, sentData,
                   qraised>>
    /\ UNCHANGED <<clsVars, decVars, fnVars, lifeVars, ghVars, botVars>>

\* Lines 178-194 and 227-243: the attempt fails; another attempt follows
\* after a sleep, or the retry loop is over and _query_doh_server returns [].
AttemptFails ==
    /\ qpc = "wait"
    /\ attempt + 1 # okAt[order[idx]]
    /\ inflight' = inflight \ {order[idx]}
    /\ \E kind \in FailureKinds :
          /\ lastFailure' = kind
          /\ IF kind = "empty" \/ kind = "timeout" \/ CatchesException(kind)
             THEN \* handled inside _query_doh_server(_ns)
                  /\ IF MayRetry(attempt, qkind)
                     THEN /\ attempt' = attempt + 1
                          /\ qpc' = "send"
                          /\ UNCHANGED <<idx, qres>>
                     ELSE AfterServer(<<>>)
                  /\ UNCHANGED qraised
             ELSE IF CatchesException(kind)
             THEN \* lines 35-37 and 59-61: on to the next server
                  /\ AfterServer(<<>>)
                  /\ UNCHANGED qraised
             ELSE \* lines 42-44 and 73-75 return [] when they catch it
                  /\ qres' = <<>>
                  /\ qpc' = "returned"
                  /\ qraised' = ~CatchesException(kind)
                  /\ UNCHANGED <<idx, attempt>>
    /\ UNCHANGED <<qryFixed, sent, sysCalls, query_data, sentData, winner>>
    /\ UNCHANGED <<clsVars, decVars, fnVars, lifeVars, ghVars, botVars>>

\* Lines 63-71 and _query_ns_system_dns: the system resolver is asked once.
SystemDns ==
    /\ qpc = "sysdns"
    /\ sysCalls' = sysCalls + 1
    /\ qres' = IF sysOk THEN SystemAnswer ELSE <<>>
    /\ qpc' = "returned"
    /\ UNCHANGED <<qryFixed, idx, attempt, inflight, sent, lastFailure, query_data,
                   sentData, winner, qraised>>
    /\ UNCHANGED <<clsVars, decVars, fnVars, lifeVars, ghVars, botVars>>

NextQuery ==
    \/ BeginQuery
    \/ SendRequest
    \/ ReceiveAnswer
    \/ AttemptFails
    \/ SystemDns

SpecQuery == InitQuery /\ [][NextQuery]_vars

(***************************************************************************)
(* Claims about the resolver calls.                                        *)
(***************************************************************************)
\* The server answers within the attempts the call makes.
Succeeds(server) == okAt[server] >= 1 /\ okAt[server] <= max_retries(qkind)

\* When the server's first non-empty answer would arrive, were all servers
\* asked at the same moment.
FinishTime(server) == okAt[server] * latency[server]

\* The servers whose answer would arrive first in such a race.
FirstToFinish ==
    {s \in Servers(qkind) :
        Succeeds(s) /\ \A t \in Servers(qkind) :
                           Succeeds(t) => FinishTime(s) <= FinishTime(t)}

\* The position in order of the first listed server that answers, 0: none.
FirstListed ==
    IF \E i \in DOMAIN order : Succeeds(order[i])
    THEN CHOOSE i \in DOMAIN order :
             Succeeds(order[i]) /\ \A j \in 1..(i - 1) : ~Succeeds(order[j])
    ELSE 0

SpecQueryLive == SpecQuery /\ WF_vars(NextQuery)

\* C11: once a server's call has returned a non-empty answer, the query
\* call has returned exactly that answer without an exception, no request
\* is in flight, and no request and no system resolver query can start.
C11_NothingAfterFirstAnswer ==
    winner # "none" =>
        /\ qpc = "returned"
        /\ qres = Answer(winner)
        /\ ~qraised
        /\ inflight = {}
        /\ ~ENABLED SendRequest
        /\ ~ENABLED SystemDns

\* C11 witness: the server listed second has answered after the first one
\* failed; the third one, which would answer too, has not been asked.
C11_Witness ==
    /\ winner # "none"
    /\ winner = order[2]
    /\ qres = Answer(winner)
    /\ sent[order[1]] > 0
    /\ okAt[order[3]] = 1
    /\ sent[order[3]] = 0
    /\ inflight = {}

\* C12: when some server answers within the attempts it is given, the call
\* returns a non-empty answer, however and wherever the other servers fail.
C12_SucceedingEndpointAnswers ==
    (qpc = "start" /\ \E s \in Servers(qkind) : Succeeds(s))
        ~> (qpc = "returned" /\ qres # <<>> /\ ~qraised)

\* C12 witness: the only server that answers is listed last and answers at
\* its second attempt; its answer is returned.
C12_Witness ==
    /\ qpc = "returned"
    /\ okAt[order[1]] = 0 /\ okAt[order[2]] = 0 /\ okAt[order[3]] = 2
    /\ lastFailure # "none"
    /\ qres = Answer(order[3])

\* C13 as claimed: no server is sent more than 2 requests in one call.
C13_AtMostTwoRequests == \A s \in DOMAIN sent : sent[s] <= 2

\* C13 as amended: a server is sent at most 2 requests by an A call and at
\* most 3 by an NS call; every attempt, however it ends, is one request.
C13_AtMostTwoOrThreeRequests ==
    /\ \A s \in DOMAIN sent :
          sent[s] <= (IF qkind = "A" THEN MaxRetriesA ELSE MaxRetriesNS)
    /\ qpc = "send" => sent[order[idx]] = attempt
    /\ qpc = "wait" => sent[order[idx]] = attempt + 1

\* C13 witness: an NS call has sent a third request to a server whose
\* second attempt came back empty.
C13_Witness ==
    /\ qkind = "NS"
    /\ qpc = "wait"
    /\ lastFailure = "empty"
    /\ sent[order[idx]] = 3

C15_SystemResolverLast ==
    /\ sysCalls <= 1
    /\ qkind = "A" => (sysCalls = 0 /\ qpc # "sysdns")
    /\ (qpc = "sysdns" \/ sysCalls = 1) =>
          /\ qkind = "NS"
          /\ winner = "none"
          /\ inflight = {}
          /\ \A s \in DOMAIN sent : sent[s] = MaxRetriesNS
    /\ winner # "none" => sysCalls = 0
    /\ (qpc = "returned" /\ qkind = "NS" /\ winner = "none") => sysCalls = 1

\* C15 witness: an NS call returns what the system resolver gave.
C15_Witness ==
    /\ qpc = "returned"
    /\ qkind = "NS"
    /\ sysCalls = 1
    /\ qres = SystemAnswer

\* What follows the question in a query message.
AdditionalSection(d) == SubSeq(d, SkipQuestion(d) + 1, Len(d))

\* C16: a message an NS call sends has an additional-record count of 0 and
\* nothing after its question, so no OPT record and no client subnet.
C16_NsQueryWithoutEdns ==
    (qkind = "NS" /\ sentData # <<>>) =>
        /\ U16(sentData, 10) = 0
        /\ AdditionalSection(sentData) = <<>>

\* C16 witness: an NS call has sent its message to a second server.
C16_Witness ==
    /\ qkind = "NS"
    /\ qpc = "wait"
    /\ idx = 2
    /\ sentData = build_dns_query(qdomain, FALSE, TypeNS)
    /\ Len(sentData) = 12 + Len(WireLabels(qdomain)) + 5

(***************************************************************************)
(* Claims about check_domain_comprehensive as a whole.                     *)
(***************************************************************************)
\* C17: a classification whose input does not normalize to a valid domain
\* has returned the invalid-domain error, and has made no resolver call and
\* no geo lookup.
C17_InvalidInputNoLookups ==
    (pc # "idle" /\ normalize_domain(raw_input) = NoDomain) =>
        /\ pc = "returned"
        /\ result = ErrorResult("invalid_domain")
        /\ calls = <<>>
        /\ geo_lookups = 0

\* C17 witness: "www.example", which is "example" once the www is removed,
\* is answered with the error.
C17_Witness ==
    /\ pc = "returned"
    /\ raw_input = <<"www", "example">>
    /\ result = ErrorResult("invalid_domain")
    /\ calls = <<>>

\* The line is among the findings.
Noted(r, line) == \E i \in 1..Len(r.details) : r.details[i] = line

\* How many IPs of the list the geo lookup gives a country for.
KnownIn(ips) ==
    Cardinality({i \in 1..Len(ips) : get_location_info(reader, ips[i]).country_code # NoCode})

\* The resolver calls a classification with this result is to make: the
\* domain, the second-level domain when it differs, the name servers of the
\* second-level domain, every name server.
ExpectedCalls(r) ==
    LET ns_domain == IF r.second_level_domain # NoDomain THEN r.second_level_domain
                     ELSE r.normalized_domain
    IN  << <<"A", r.normalized_domain>> >>
        \o (IF r.second_level_domain # NoDomain
               /\ r.second_level_domain # r.normalized_domain
            THEN << <<"A", r.second_level_domain>> >> ELSE <<>>)
        \o << <<"NS", ns_domain>> >>
        \o [i \in 1..Len(r.ns_servers) |-> <<"A", r.ns_servers[i]>>]

\* An empty lookup leaves its note, and every sub-step was run.
StepsRunAndNoted(r) ==
    /\ calls = ExpectedCalls(r)
    /\ r.domain_ips = <<>> => Noted(r, <<"domain", "unresolved">>)
    /\ (r.second_level_domain # r.normalized_domain /\ r.second_level_ips = <<>>)
          => Noted(r, <<"second_level", "unresolved">>)
    /\ r.ns_servers = <<>> => Noted(r, <<"ns", "unresolved">>)
    /\ (r.ns_servers # <<>> /\ r.ns_ips = <<>>) =>
          \A i \in 1..Len(r.ns_servers) :
              Noted(r, <<"ns_host", r.ns_servers[i], "foreign", 0>>)

\* C18 as claimed: a valid domain is always classified, every sub-step is
\* run, an empty lookup leaves a note, and only IPs with a known country
\* add to the counts of their category.
C18_FailedStepsCountZero ==
    (pc = "returned" /\ normalize_domain(raw_input) # NoDomain) =>
        /\ Classified
        /\ StepsRunAndNoted(result)
        /\ result.domain_china_count + result.domain_foreign_count
              = KnownIn(result.domain_ips)
        /\ result.second_level_china_count + result.second_level_foreign_count
              = KnownIn(result.second_level_ips)
        /\ result.ns_china_count + result.ns_foreign_count = KnownIn(result.ns_ips)

\* C18 as amended: a valid domain is always classified, every sub-step is
\* run, an empty lookup leaves a note and adds nothing to the counts, and
\* every IP that is not domestic, its country unknown or not, adds one to
\* the foreign count of its category.
C18_UnknownCountsAsForeign ==
    (pc = "returned" /\ normalize_domain(raw_input) # NoDomain) =>
        /\ Classified
        /\ StepsRunAndNoted(result)
        /\ result.domain_china_count = DomesticIn(result.domain_ips)
        /\ result.domain_foreign_count
              = Len(result.domain_ips) - DomesticIn(result.domain_ips)
        /\ result.second_level_china_count = DomesticIn(result.second_level_ips)
        /\ result.second_level_foreign_count
              = Len(result.second_level_ips) - DomesticIn(result.second_level_ips)
        /\ result.ns_china_count = DomesticIn(result.ns_ips)
        /\ result.ns_foreign_count = Len(result.ns_ips) - DomesticIn(result.ns_ips)

\* C18 witness: without a country database, the domain has one IP of
\* unknown country, counted as foreign; the second-level lookup is empty and
\* the one name server has no address.
C18_Witness ==
    /\ Classified
    /\ ~reader
    /\ result.domain_ips = <<IpUS>>
    /\ KnownIn(result.domain_ips) = 0
    /\ result.domain_foreign_count = 1
    /\ result.second_level_domain # result.normalized_domain
    /\ result.second_level_ips = <<>>
    /\ result.ns_servers # <<>> /\ result.ns_ips = <<>>
    /\ result.foreign_total_count = 1

\* The number of entries of a sequence that equal e.
CountOf(seq, e) == Cardinality({i \in 1..Len(seq) : seq[i] = e})

\* C24: a classification looks the second-level domain up with an A query
\* exactly when it differs from the normalized domain, right after the
\* lookup of the normalized domain; when the two are equal the name is
\* looked up once, the second-level category has no IP and zero counts, and
\* the totals are the domain's counts plus the name servers' counts.
C24_SecondLevelLookedUpIffDistinct ==
    (pc = "returned" /\ ~HasKey(result, "error")) =>
        LET nd == result.normalized_domain
            sld == result.second_level_domain
        IN  /\ calls[1] = <<"A", nd>>
            /\ IF sld # nd
               THEN /\ calls[2] = <<"A", sld>>
                    /\ CountOf(calls, <<"A", sld>>) = 1
               ELSE /\ calls[2][1] = "NS"
                    /\ CountOf(calls, <<"A", nd>>) = 1
                    /\ result.second_level_ips = <<>>
                    /\ result.second_level_china_count = 0
                    /\ result.second_level_foreign_count = 0
                    /\ result.china_total_count =
                          result.domain_china_count + result.ns_china_count
                    /\ result.foreign_total_count =
                          result.domain_foreign_count + result.ns_foreign_count

\* C24 witness: www.example.com is its own second-level domain; its two
\* IPs, one domestic, are counted once.
C24_Witness ==
    /\ pc = "returned" /\ ~HasKey(result, "error")
    /\ result.second_level_domain = result.normalized_domain
    /\ Len(result.domain_ips) = 2
    /\ result.domain_china_count = 1
    /\ result.china_total_count = 1 + result.ns_china_count
    /\ result.second_level_ips = <<>>

\* The position of the NS lookup in the calls made.
NsCallAt == CHOOSE i \in 1..Len(calls) : calls[i][1] = "NS"

C26_TotalsAreSums ==
    Classified =>
        /\ result.china_total_count =
              result.domain_china_count + result.second_level_china_count
                  + result.ns_china_count
        /\ result.foreign_total_count =
              result.domain_foreign_count + result.second_level_foreign_count
                  + result.ns_foreign_count

\* C26 witness: each category has one domestic and one foreign IP, and the
\* totals are 3 and 3.
C26_Witness ==
    /\ Classified
    /\ result.domain_china_count = 1 /\ result.domain_foreign_count = 1
    /\ result.second_level_china_count = 1 /\ result.second_level_foreign_count = 1
    /\ result.ns_china_count = 1 /\ result.ns_foreign_count = 1
    /\ result.china_total_count = 3 /\ result.foreign_total_count = 3

\* The name an NS record of a generated response carries: n.a.bc, or a.bc
\* when its RDATA is a pointer to the question name.
NameOf(form) ==
    IF form = "pointer" THEN <<97, 46, 98, 99>> ELSE <<110, 46, 97, 46, 98, 99>>

\* What one record of a generated response gives the decoder of type t: an
\* A record of four bytes its address, an NS record its name.
Entry(a, t) ==
    IF t = "A" THEN (IF a.type = TypeA /\ Len(a.ip) = 4 THEN <<a.ip>> ELSE <<>>)
    ELSE (IF a.type = TypeNS THEN <<NameOf(a.name)>> ELSE <<>>)

Entries(ans, t) == Flatten([i \in 1..Len(ans) |-> Entry(ans[i], t)])

\* Where the i-th record of the generated response ends, and where its
\* RDATA starts.
RecordEnd(i) == Len(EncodeResponse(QType(rtype), SubSeq(answers, 1, i)))

RdataStart(i) ==
    RecordEnd(i) - (IF answers[i].type = TypeA THEN Len(answers[i].ip)
                    ELSE Len(NameRdata(answers[i].name)))

\* C27: a record of inconsistent length gives no entry and ends nothing
\* but itself.  A response holding A records whose RDLENGTH is not 4 decodes,
\* without error, to the entries of its other records, those before and
\* those after, in order.  A response cut inside the RDATA of a record, so
\* that its RDLENGTH runs past the end of the buffer, decodes, without
\* error, to the entries of the records before it.
C27_WrongLengthRecordDropped ==
    /\ (dpc = "done" /\ ~wellformed /\ answers # <<>>) =>
          /\ ~raised /\ errors = <<>>
          /\ records = Entries(answers, rtype)
    /\ (dpc = "done" /\ wellformed /\ run = 1) =>
          \A k \in 1..Len(answers) :
              (RdataStart(k) <= cut /\ cut < RecordEnd(k)) =>
                  /\ ~raised /\ errors = <<>>
                  /\ records = Entries(SubSeq(answers, 1, k - 1), rtype)

\* C27 witness: an A record of five bytes between two well-formed A records;
\* the A decoder returns the two addresses.
C27_Witness ==
    /\ dpc = "done" /\ ~wellformed /\ rtype = "A"
    /\ Len(answers) = 3
    /\ Len(answers[1].ip) = 4 /\ Len(answers[2].ip) = 5 /\ Len(answers[3].ip) = 4
    /\ answers[1].type = TypeA /\ answers[3].type = TypeA
    /\ records = <<answers[1].ip, answers[3].ip>>

\* C27 witness for the cut: the second of two A records is cut inside its
\* address and the first address is returned.
C27_WitnessCut ==
    /\ dpc = "done" /\ wellformed /\ run = 1 /\ rtype = "A"
    /\ Len(answers) = 2
    /\ answers[1].type = TypeA /\ answers[2].type = TypeA
    /\ RdataStart(2) < cut /\ cut < RecordEnd(2)
    /\ records = <<answers[1].ip>>

\* C30: the recommendation of a classification result advises to add
\* exactly when should_add_directly holds of the result.  Its reason names
\* the IPs whenever the domain or the second-level domain has a domestic IP,
\* names the name servers exactly when neither has one and a name server
\* has, and otherwise it advises against adding.
C30_RecommendationFollowsDecision ==
    Classified =>
        LET rec == result.recommendation
            ip_domestic == HasDomestic(result.domain_ips)
                              \/ HasDomestic(result.second_level_ips)
            ns_domestic == HasDomestic(result.ns_ips)
        IN  /\ rec[1] \in {"add", "reject"}
            /\ (rec[1] = "add") <=> should_add_directly(result)
            /\ ip_domestic => rec[3] = "ip_in_china"
            /\ (rec[3] = "ns_in_china") <=> (~ip_domestic /\ ns_domestic)
            /\ (rec[1] = "reject") <=> (rec[3] = "neither_in_china")
            /\ (rec[1] = "reject") <=> (~ip_domestic /\ ~ns_domestic)

\* C30 witness: the domain has no domestic IP, the second-level domain and
\* a name server have one; the reason given is the IP, not the name server.
C30_Witness ==
    /\ Classified
    /\ result.domain_ips # <<>> /\ ~HasDomestic(result.domain_ips)
    /\ HasDomestic(result.second_level_ips)
    /\ HasDomestic(result.ns_ips)
    /\ result.recommendation[1] = "add"
    /\ result.recommendation[3] = "ip_in_china"

\* C31: for every classification result exactly one of should_add_directly
\* and should_reject is true and should_ask_confirmation is false, so a
\* caller that tests the first and then the second never takes a third
\* branch.
C31_ExactlyOneDecision ==
    Classified =>
        /\ should_add_directly(result) # should_reject(result)
        /\ ~should_ask_confirmation(result)

\* C31 witness: a result with a domestic IP and no domestic name server is
\* added and not rejected.
C31_Witness ==
    /\ Classified
    /\ HasDomestic(result.domain_ips)
    /\ result.ns_ips # <<>> /\ ~HasDomestic(result.ns_ips)
    /\ should_add_directly(result) /\ ~should_reject(result)

\* The three categories of a classification result.
Categories == {"domain", "second_level", "ns"}

\* The field of a category, named as in the result dictionary.
Field(r, cat, name) ==
    IF cat = "domain"
    THEN (IF name = "ips" THEN r.domain_ips
          ELSE IF name = "china_count" THEN r.domain_china_count
          ELSE IF name = "foreign_count" THEN r.domain_foreign_count
          ELSE r.domain_china_status)
    ELSE IF cat = "second_level"
    THEN (IF name = "ips" THEN r.second_level_ips
          ELSE IF name = "china_count" THEN r.second_level_china_count
          ELSE IF name = "foreign_count" THEN r.second_level_foreign_count
          ELSE r.second_level_china_status)
    ELSE (IF name = "ips" THEN r.ns_ips
          ELSE IF name = "china_count" THEN r.ns_china_count
          ELSE IF name = "foreign_count" THEN r.ns_foreign_count
          ELSE r.ns_china_status)

\* C32: in every classification result, for each of the three categories
\* the domestic count plus the foreign count is the number of IPs listed
\* for the category, the status flag is true iff the domestic count is at
\* least 1, and no count is negative.
C32_CountsPartitionIps ==
    Classified =>
        \A cat \in Categories :
            /\ Field(result, cat, "china_count") + Field(result, cat, "foreign_count")
                  = Len(Field(result, cat, "ips"))
            /\ Field(result, cat, "china_status") <=> Field(result, cat, "china_count") >= 1
            /\ Field(result, cat, "china_count") >= 0
            /\ Field(result, cat, "foreign_count") >= 0

\* C32 witness: the name servers have one domestic and one other IP, the
\* domain has a domestic IP and the second-level domain only others.
C32_Witness ==
    /\ Classified
    /\ result.ns_china_count = 1 /\ result.ns_foreign_count = 1
    /\ result.domain_china_status
    /\ result.second_level_ips # <<>> /\ ~result.second_level_china_status

(***************************************************************************)
(* domain_utils.py: extract_second_level_domain called on one domain.      *)
(***************************************************************************)
MaxLabels == 4   \* most labels of a domain handed to extract_second_level_domain

SldInputs == SeqUpTo(ValidLabels, MaxLabels)

InitSld ==
    /\ ClsIdle /\ reader = FALSE /\ inputs = {} /\ track = FALSE
    /\ DecOff /\ QryOff /\ LifeOff /\ GhOff /\ BotOff
    /\ fname = "extract_second_level_domain"
    /\ farg \in SldInputs
    /\ fret = <<>>
    /\ fpc = "call"

ExtractSecondLevel ==
    /\ fpc = "call"
    /\ fname = "extract_second_level_domain"
    /\ fret' = extract_second_level_domain(farg)
    /\ fpc' = "done"
    /\ UNCHANGED <<fname, farg>>
    /\ UNCHANGED <<clsVars, decVars, qryVars, lifeVars, ghVars, botVars>>

NextSld == ExtractSecondLevel

SpecSld == InitSld /\ [][NextSld]_vars

\* The suffixes of both tables of _get_tld_length.
ListedSuffixes == three_part_tlds \cup two_part_tlds

\* C19: a domain of three or more labels that ends in a suffix of either
\* table has as second-level domain its last three labels; a domain of two or
\* more labels whose last two labels are in no table has its last two.
C19_SecondLevelBySuffix ==
    (fpc = "done" /\ fname = "extract_second_level_domain" /\ Len(farg) >= 2) =>
        IF LastN(farg, 2) \in ListedSuffixes
        THEN Len(farg) >= 3 => fret = LastN(farg, 3)
        ELSE fret = LastN(farg, 2)

(***************************************************************************)
(* geoip_service.py: get_location_info called on one string.               *)
(***************************************************************************)
\* Dotted quads with every first octet, and strings that are no dotted
\* quad: empty, too short, too long, a number above 255, a piece that is
\* not a number.
GeoInputs ==
    {<<a, b, 0, 1>> : a \in 0..255, b \in {0, 168}}
        \cup {<<>>, <<1>>, <<1, 2, 3>>, <<1, 2, 3, 4, 5>>, <<256, 1, 1, 1>>,
              <<1, 256, 1, 1>>, <<-1>>, <<1, -1, 3, 4>>, <<8, 8, 8, 300>>}

\* A dotted quad of four numbers 0..255.
IsIPv4(ip) == Len(ip) = 4 /\ \A i \in 1..4 : ip[i] \in 0..255

InitGeo ==
    /\ ClsIdle /\ reader = FALSE /\ inputs = {} /\ track = FALSE
    /\ DecOff /\ QryOff /\ LifeOff /\ GhOff /\ BotOff
    /\ fname = "get_location_info"
    /\ farg \in [rd : BOOLEAN, ip : GeoInputs]
    /\ fret = <<>>
    /\ fpc = "call"

GetLocationInfo ==
    /\ fpc = "call"
    /\ fname = "get_location_info"
    /\ fret' = get_location_info(farg.rd, farg.ip)
    /\ fpc' = "done"
    /\ UNCHANGED <<fname, farg>>
    /\ UNCHANGED <<clsVars, decVars, qryVars, lifeVars, ghVars, botVars>>

NextGeo == GetLocationInfo

SpecGeo == InitGeo /\ [][NextGeo]_vars

\* C20: without a country database get_location_info returns a result for
\* every string, with country CN or none at all; for a dotted quad it says
\* CN and domestic iff the first octet is in the table, and otherwise gives
\* no country, the name for unknown, and not domestic.
C20_FallbackHomeOrUnknown ==
    (fpc = "done" /\ fname = "get_location_info" /\ ~farg.rd) =>
        /\ DOMAIN fret = {"ip", "country_code", "country_name", "is_china"}
        /\ fret.ip = farg.ip
        /\ fret.country_code \in {"CN", NoCode}
        /\ fret.is_china <=> fret.country_code = "CN"
        /\ fret.country_code = NoCode => fret.country_name = CountryName(NoCode)
        /\ IsIPv4(farg.ip) => (fret.is_china <=> farg.ip[1] \in china_first_octets)
        /\ ~inet_aton_ok(farg.ip) => fret.country_code = NoCode

\* C20 witness: 8.168.0.1, first octet not in the table, has no country
\* and is not domestic.
C20_Witness ==
    /\ fpc = "done" /\ fname = "get_location_info" /\ ~farg.rd
    /\ farg.ip = <<8, 168, 0, 1>>
    /\ fret.country_code = NoCode
    /\ fret.country_name = CountryName(NoCode)
    /\ ~fret.is_china

(***************************************************************************)
(* Service lifecycle: RuleBot.start.run_bot and the lifecycle test drive   *)
(* a DNSService through HandlerManager.start / stop or directly.           *)
(***************************************************************************)
\* The keys a DoH server dict may have (config.py lines 41-52).
ServerNames == DohServers \cup NsDohServers

\* The methods the class DNSService defines.
DNSServiceMethods ==
    {"__init__", "query_a_record", "query_ns_records", "_query_ns_system_dns",
     "_build_dns_query", "_query_doh_server", "_query_doh_server_ns",
     "_parse_dns_response_a", "_parse_dns_response_ns", "_parse_domain_name"}

\* The attributes __init__ sets on the instance.
DNSServiceAttributes == {"doh_servers", "ns_doh_servers"}

\* Calling service.<name>(): the attribute lookup fails for a name that is
\* neither a method of the class nor an attribute of the instance.
CallRaises(name) ==
    IF name \in DNSServiceMethods \cup DNSServiceAttributes
    THEN "none" ELSE "AttributeError"

\* The state after DNSService(doh_servers, ns_doh_servers): "ns_doh_servers
\* or doh_servers" replaces None and the empty dict alike.  No session
\* attribute is set.
InitLife ==
    /\ ClsIdle /\ reader = FALSE /\ inputs = {} /\ track = FALSE
    /\ DecOff /\ QryOff /\ FnOff /\ GhOff /\ BotOff
    /\ driver \in {"bot", "test"}
    /\ doh_servers \in SUBSET ServerNames
    /\ \E ns_arg \in SUBSET ServerNames :
          ns_doh_servers = IF ns_arg = {} THEN doh_servers ELSE ns_arg
    /\ session = "absent" /\ app = "built" /\ user_states = FALSE
    /\ lpc = "constructed" /\ lraised = "none" /\ lcalls = <<>>

lifeFixed == <<driver, doh_servers, ns_doh_servers>>

\* bot.py line 59: "async with self.app" initializes the application.
EnterApp ==
    /\ driver = "bot" /\ lpc = "constructed"
    /\ app' = "initialized"
    /\ lpc' = "handler_start"
    /\ UNCHANGED <<lifeFixed, session, user_states, lraised, lcalls>>
    /\ UNCHANGED <<clsVars, decVars, qryVars, fnVars, ghVars, botVars>>

\* handler_manager.py lines 43-54, called at bot.py line 60: the service
\* object is truthy, so self.dns_service.start() is evaluated.  DNSService
\* has no start: the lookup raises, the assignments of lines 49-54 are not
\* reached and the exception leaves the "async with" block.
HandlerManagerStart ==
    /\ driver = "bot" /\ lpc = "handler_start"
    /\ lcalls' = Append(lcalls, "start")
    /\ lraised' = CallRaises("start")
    /\ user_states' = (CallRaises("start") = "none")
    /\ lpc' = "exit_app"
    /\ UNCHANGED <<lifeFixed, session, app>>
    /\ UNCHANGED <<clsVars, decVars, qryVars, fnVars, ghVars, botVars>>

\* bot.py line 59: leaving "async with self.app" shuts the application down.
ExitApp ==
    /\ driver = "bot" /\ lpc = "exit_app"
    /\ app' = "shutdown"
    /\ lpc' = "finally"
    /\ UNCHANGED <<lifeFixed, session, user_states, lraised, lcalls>>
    /\ UNCHANGED <<clsVars, decVars, qryVars, fnVars, ghVars, botVars>>

\* bot.py lines 68-69 and 29-37, handler_manager.py lines 56-59: the
\* finally clause awaits RuleBot.stop, which awaits HandlerManager.stop,
\* which evaluates self.dns_service.close().  DNSService has no close: the
\* lookup raises and lines 34-36 of bot.py are not reached.
BotStop ==
    /\ driver = "bot" /\ lpc = "finally"
    /\ lcalls' = Append(lcalls, "close")
    /\ lraised' = CallRaises("close")
    /\ lpc' = "exited"
    /\ UNCHANGED <<lifeFixed, session, app, user_states>>
    /\ UNCHANGED <<clsVars, decVars, qryVars, fnVars, ghVars, botVars>>

\* tests/test_async_services.py lines 18-19: service.start() on a fresh
\* DNSService.
TestStart ==
    /\ driver = "test" /\ lpc = "constructed"
    /\ lcalls' = Append(lcalls, "start")
    /\ lraised' = CallRaises("start")
    /\ lpc' = "exited"
    /\ UNCHANGED <<lifeFixed, session, app, user_states>>
    /\ UNCHANGED <<clsVars, decVars, qryVars, fnVars, ghVars, botVars>>

NextLife ==
    \/ EnterApp
    \/ HandlerManagerStart
    \/ ExitApp
    \/ BotStop
    \/ TestStart

SpecLife == InitLife /\ [][NextLife]_vars

\* C21: once start() has been called and the call is over, the service
\* holds an open session and nothing was raised; once close() has been
\* called and the call is over, the session is closed.
C21_SessionLifecycle ==
    /\ (lcalls # <<>> /\ lcalls[Len(lcalls)] = "start") =>
           (session = "open" /\ lraised = "none")
    /\ (lcalls # <<>> /\ lcalls[Len(lcalls)] = "close") =>
           session = "closed"

(***************************************************************************)
(* github_service.py: the rule file of the repository and one caller of    *)
(* GitHubService.  Text is a sequence of tokens: "NL" a newline, "SP" a    *)
(* space, "M" the marker comment "# 以下域名待提交 PR", "DS" the prefix    *)
(* "DOMAIN-SUFFIX,", "#" the start of a comment; every other token is a    *)
(* piece of text without newline or space.                                 *)
(***************************************************************************)
MaxLines == 2   \* most lines of the rule file before the first call

Marker == <<"M">>

\* The lines a rule file is made of at the start: the marker, a comment, a
\* rule, an indented rule in upper case, an empty line, a line with the
\* marker after other text.
LinePool ==
    {<<"M">>, <<"#", "c">>, <<"DS", "a.com">>, <<"SP", "DS", "A.com", "SP">>,
     <<>>, <<"x", "M">>}

\* str.split('\n')
RECURSIVE split(_)
split(text) ==
    IF \A i \in 1..Len(text) : text[i] # "NL"
    THEN <<text>>
    ELSE LET i == CHOOSE i \in 1..Len(text) :
                      text[i] = "NL" /\ \A j \in 1..(i - 1) : text[j] # "NL"
         IN <<SubSeq(text, 1, i - 1)>> \o split(SubSeq(text, i + 1, Len(text)))

\* '\n'.join(lines)
RECURSIVE join(_)
join(ls) ==
    IF ls = <<>> THEN <<>>
    ELSE IF Len(ls) = 1 THEN ls[1]
    ELSE ls[1] \o <<"NL">> \o join(Tail(ls))

RuleFiles == {join(ls) : ls \in SeqUpTo(LinePool, MaxLines)}

\* str.strip() of a line.
RECURSIVE LStrip(_)
LStrip(line) ==
    IF line # <<>> /\ Head(line) = "SP" THEN LStrip(Tail(line)) ELSE line

RECURSIVE RStrip(_)
RStrip(line) ==
    IF line # <<>> /\ line[Len(line)] = "SP"
    THEN RStrip(SubSeq(line, 1, Len(line) - 1)) ELSE line

Strip(line) == RStrip(LStrip(line))

\* str.lower(): A.com is the one token with an upper-case letter a domain
\* is compared by.
Lower(tok) == IF tok = "A.com" THEN "a.com" ELSE tok

LowerText(text) == [i \in 1..Len(text) |-> Lower(text[i])]

\* The text of an argument given as one token.
TokText(tok) == IF tok = "" THEN <<>> ELSE <<tok>>

\* "not x or len(x.strip()) == 0" of lines 192 and 195.
Blank(tok) == Strip(TokText(tok)) = <<>>

\* Line 305 testing for the text add writes into its comments: the marker
\* and other comments are left alone, and so are comments of add.
StartsWithAddComment(line) == line # <<>> /\ Head(line) = "add by"

\* line.startswith('#'): the marker is a comment too.
StartsWithHash(line) == line # <<>> /\ Head(line) \in {"#", "M"}

\* '"# 以下域名待提交 PR" in line'
HasMarker(line) == \E i \in 1..Len(line) : line[i] = "M"

\* The repository API hands the file out base64-encoded, with the blob sha
\* of its content.
B64Encode(text) == [i \in 1..Len(text) |-> <<"b64", text[i]>>]

b64decode(enc) == [i \in 1..Len(enc) |-> enc[i][2]]

BlobSha(text) == <<"blob", text>>

get_contents(text) == [content |-> B64Encode(text), sha |-> BlobSha(text)]

\* Lines 174-177 with "insert_index = i": the new lines go before the
\* marker.
InsertIndexAtMarker(ls) ==
    IF \E i \in 1..Len(ls) : HasMarker(ls[i])
    THEN (CHOOSE i \in 1..Len(ls) :
              HasMarker(ls[i]) /\ \A j \in 1..(i - 1) : ~HasMarker(ls[j])) - 1
    ELSE -1

\* Lines 172-177: the index after the first line that holds the marker, as
\* a Python list index (from 0), or -1.
InsertIndex(ls) ==
    IF \E i \in 1..Len(ls) : HasMarker(ls[i])
    THEN CHOOSE i \in 1..Len(ls) :
             HasMarker(ls[i]) /\ \A j \in 1..(i - 1) : ~HasMarker(ls[j])
    ELSE -1

\* list.insert(k, x) for 0 <= k <= len.
ListInsert(ls, k, x) == SubSeq(ls, 1, k) \o <<x>> \o SubSeq(ls, k + 1, Len(ls))

\* Lines 198-201; "date" is the formatted current time.
CommentLine(description, user_name) ==
    IF description # ""
    THEN <<"#", description, "by", user_name, "date">>
    ELSE <<"#", "by", user_name, "date">>

\* Lines 169-218, _prepare_update.
prepare_update(text, domain, user_name, description) ==
    LET ls0 == split(text)
        found == InsertIndex(ls0)
        ls1 == IF found = -1 THEN Append(ls0, Marker) ELSE ls0
        insert_index == IF found = -1 THEN Len(ls0) + 1 ELSE found
        comment == CommentLine(description, user_name)
        rule == <<"DS", domain>>
        ls2 == ListInsert(ListInsert(ls1, insert_index, comment),
                          insert_index + 1, rule)
        commit_title == <<"Add", domain, user_name>>
        full_commit_message ==
            IF ~Blank(description) THEN commit_title \o <<description>>
            ELSE commit_title
    IN IF Blank(domain) THEN [error |-> "invalid_domain"]
       ELSE IF Blank(user_name) THEN [error |-> "invalid_user"]
       ELSE [new_content |-> join(ls2), message |-> full_commit_message]

\* Lines 293-314, the loop of _prepare_removal; i is the Python index.
RECURSIVE RemovalLoop(_, _, _, _, _)
RemovalLoop(ls, domain_lower, i, new_lines, removed_lines) ==
    IF i >= Len(ls)
    THEN [new_lines |-> new_lines, removed_lines |-> removed_lines]
    ELSE LET line == Strip(ls[i + 1])
             hit == /\ line # <<>> /\ Head(line) = "DS"
                    /\ LowerText(Strip(Tail(line))) = domain_lower
             pops == i > 0 /\ StartsWithHash(Strip(ls[i]))
         IN IF hit
            THEN RemovalLoop(ls, domain_lower, i + 1,
                     IF pops THEN SubSeq(new_lines, 1, Len(new_lines) - 1)
                     ELSE new_lines,
                     IF pops THEN removed_lines \o <<line, Strip(ls[i])>>
                     ELSE Append(removed_lines, line))
            ELSE RemovalLoop(ls, domain_lower, i + 1,
                     Append(new_lines, ls[i + 1]), removed_lines)

\* Lines 287-331, _prepare_removal and the commit message.
prepare_removal(text, domain, user_name) ==
    LET r == RemovalLoop(split(text), LowerText(TokText(domain)), 0, <<>>, <<>>)
    IN IF r.removed_lines = <<>> THEN [error |-> "not_found"]
       ELSE [new_content |-> join(r.new_lines),
             message |-> <<"Remove", domain, user_name>>,
             removed_lines |-> r.removed_lines]

\* How a request to the repository ends.
RequestOutcomes == {"ok", "GithubException", "Exception"}

\* self.repo.get_contents in get_rule_file_content: with repo None the
\* attribute lookup raises before any request.
ReadOutcomes(repo_set) == IF repo_set THEN RequestOutcomes ELSE {"AttributeError"}

\* Lines 92-97 with the second except clause left out.
ReadCatchesGithubOnly(exc) == exc = "GithubException"

\* Lines 92-97: "except GithubException" and "except Exception".
ReadCatches(exc) == TRUE

\* Lines 83-97, get_rule_file_content, the read ending as outcome says.
get_rule_file_content(outcome, text) ==
    IF outcome = "ok"
    THEN [raised |-> "none", value |-> <<b64decode(get_contents(text).content)>>]
    ELSE IF ReadCatches(outcome) THEN [raised |-> "none", value |-> <<>>]
    ELSE [raised |-> outcome, value |-> <<>>]

Request(name, outcome) == [req |-> name, outcome |-> outcome]

\* The requests get_rule_file_content issues.
ReadRequests(repo_set, outcome) ==
    IF repo_set THEN <<Request("get_contents", outcome)>> ELSE <<>>

AddCalls ==
    [op : {"add"}, domain : {"a.com", "b.com", "SP"}, user_name : {"user", ""},
     description : {"", "desc"}]

RemoveCalls ==
    [op : {"remove"}, domain : {"a.com", "A.com", "b.com"}, user_name : {"user"},
     description : {""}]

ReadCalls == [op : {"read"}, domain : {""}, user_name : {""}, description : {""}]

\* _initialize_repo leaves repo None when the connection fails.
InitGitHub ==
    /\ ClsIdle /\ reader = FALSE /\ inputs = {} /\ track = FALSE
    /\ DecOff /\ QryOff /\ FnOff /\ LifeOff /\ BotOff
    /\ repo \in BOOLEAN
    /\ file \in RuleFiles
    /\ commits = <<>>
    /\ gcall \in AddCalls \cup RemoveCalls \cup ReadCalls
    /\ gpc = "call"
    /\ content = <<>> /\ prepared = <<>> /\ file_sha = <<>>
    /\ gresult = <<>> /\ api = <<>> /\ external = FALSE /\ followup = FALSE
    /\ before = file

Failure(error) == [success |-> FALSE, error |-> error]

\* get_rule_file_content called on its own (the test of lines 31-48).
GetRuleFileContent ==
    /\ gpc = "call" /\ gcall.op = "read"
    /\ \E o \in ReadOutcomes(repo) :
          LET r == get_rule_file_content(o, file)
          IN /\ content' = r.value
             /\ gresult' = r
             /\ api' = ReadRequests(repo, o)
    /\ gpc' = "done"
    /\ UNCHANGED <<before, repo, file, commits, gcall, prepared, file_sha, external, followup>>
    /\ UNCHANGED <<clsVars, decVars, qryVars, fnVars, lifeVars, botVars>>

\* Lines 150-223 of add_domain_to_rules: the repo test, the read, and
\* _prepare_update.  The except clauses of lines 260-273 turn an exception
\* into a failure result.
AddDomainFetch ==
    /\ gpc = "call" /\ gcall.op = "add"
    /\ IF ~repo
       THEN /\ gresult' = Failure("repo_not_initialized")
            /\ gpc' = "done"
            /\ UNCHANGED <<content, prepared, api>>
       ELSE \E o \in ReadOutcomes(repo) :
               LET r == get_rule_file_content(o, file)
                   pu == prepare_update(r.value[1], gcall.domain, gcall.user_name,
                                        gcall.description)
               IN /\ content' = r.value
                  /\ api' = ReadRequests(repo, o)
                  /\ IF r.raised # "none"
                     THEN gresult' = Failure(r.raised) /\ gpc' = "done"
                          /\ UNCHANGED prepared
                     ELSE IF r.value = <<>>
                     THEN gresult' = Failure("no_content") /\ gpc' = "done"
                          /\ UNCHANGED prepared
                     ELSE IF "error" \in DOMAIN pu
                     THEN gresult' = Failure(pu.error) /\ gpc' = "done"
                          /\ UNCHANGED prepared
                     ELSE prepared' = pu /\ gpc' = "prepared"
                          /\ UNCHANGED gresult
    /\ UNCHANGED <<before, repo, file, commits, gcall, file_sha, external, followup>>
    /\ UNCHANGED <<clsVars, decVars, qryVars, fnVars, lifeVars, botVars>>

\* Lines 277-323 of remove_domain_from_rules: the read and
\* _prepare_removal; lines 363-368 turn an exception into a failure result.
RemoveDomainFetch ==
    /\ gpc = "call" /\ gcall.op = "remove"
    /\ \E o \in ReadOutcomes(repo) :
          LET r == get_rule_file_content(o, file)
              pr == prepare_removal(r.value[1], gcall.domain, gcall.user_name)
          IN /\ content' = r.value
             /\ api' = ReadRequests(repo, o)
             /\ IF r.raised # "none"
                THEN gresult' = Failure(r.raised) /\ gpc' = "done"
                     /\ UNCHANGED prepared
                ELSE IF r.value = <<>>
                THEN gresult' = Failure("no_content") /\ gpc' = "done"
                     /\ UNCHANGED prepared
                ELSE IF "error" \in DOMAIN pr
                THEN gresult' = Failure(pr.error) /\ gpc' = "done"
                     /\ UNCHANGED prepared
                ELSE prepared' = pr /\ gpc' = "prepared"
                     /\ UNCHANGED gresult
    /\ UNCHANGED <<before, repo, file, commits, gcall, file_sha, external, followup>>
    /\ UNCHANGED <<clsVars, decVars, qryVars, fnVars, lifeVars, botVars>>

\* Lines 231 and 334: _perform_commit reads the file again for its sha.
PerformCommitRead ==
    /\ gpc = "prepared"
    /\ \E o \in RequestOutcomes :
          /\ api' = Append(api, Request("get_contents", o))
          /\ IF o = "ok"
             THEN /\ file_sha' = get_contents(file).sha
                  /\ gpc' = "got_sha"
                  /\ UNCHANGED gresult
             ELSE /\ gresult' = Failure(o)
                  /\ gpc' = "done"
                  /\ UNCHANGED file_sha
    /\ UNCHANGED <<before, repo, file, commits, gcall, content, prepared, external, followup>>
    /\ UNCHANGED <<clsVars, decVars, qryVars, fnVars, lifeVars, botVars>>

\* Lines 232-258 and 335-361: update_file and the result.  The repository
\* refuses an update whose sha is not the sha of the file it holds.
PerformCommitUpdate ==
    /\ gpc = "got_sha"
    /\ \E o \in {"ok", "GithubException"} :
          /\ api' = Append(api, Request("update_file", o))
          /\ IF o = "ok" /\ file_sha = BlobSha(file)
             THEN /\ file' = prepared.new_content
                  /\ commits' = Append(commits,
                         [sha |-> Len(commits) + 1, content |-> prepared.new_content,
                          message |-> prepared.message, by |-> "bot",
                          second |-> followup])
                  /\ gresult' = [success |-> TRUE, domain |-> gcall.domain,
                                 commit_message |-> prepared.message,
                                 commit_sha |-> Len(commits) + 1]
             ELSE /\ gresult' = Failure("GithubException")
                  /\ UNCHANGED <<file, commits>>
    /\ gpc' = "done"
    /\ UNCHANGED <<before, repo, gcall, content, prepared, file_sha, external, followup>>
    /\ UNCHANGED <<clsVars, decVars, qryVars, fnVars, lifeVars, botVars>>

\* The rule the other writer commits.
ExternalRule == <<"DS", "c.org">>

\* Another writer of the repository commits a rule of its own at the end
\* of the file while the call is between its requests, once per call.
ExternalCommit ==
    /\ gpc \in {"prepared", "got_sha"} /\ ~external
    /\ LET changed == join(Append(split(file), ExternalRule))
       IN /\ file' = changed
          /\ commits' = Append(commits,
                 [sha |-> Len(commits) + 1, content |-> changed,
                  message |-> <<"other">>, by |-> "other", second |-> followup])
    /\ external' = TRUE
    /\ UNCHANGED <<before, repo, gcall, gpc, content, prepared, file_sha, gresult, api, followup>>
    /\ UNCHANGED <<clsVars, decVars, qryVars, fnVars, lifeVars, botVars>>

\* After a successful add the caller goes on to remove a domain.
RemoveAfterAdd ==
    /\ gpc = "done" /\ ~followup /\ gcall.op = "add" /\ gresult.success
    /\ gcall' \in RemoveCalls
    /\ gpc' = "call"
    /\ followup' = TRUE
    /\ content' = <<>> /\ prepared' = <<>> /\ file_sha' = <<>>
    /\ gresult' = <<>> /\ api' = <<>> /\ external' = FALSE
    /\ UNCHANGED <<before, repo, file, commits>>
    /\ UNCHANGED <<clsVars, decVars, qryVars, fnVars, lifeVars, botVars>>

NextGitHub ==
    \/ GetRuleFileContent
    \/ AddDomainFetch
    \/ RemoveDomainFetch
    \/ PerformCommitRead
    \/ PerformCommitUpdate
    \/ ExternalCommit
    \/ RemoveAfterAdd

SpecGitHub == InitGitHub /\ [][NextGitHub]_vars

\* The commits the bot made during the call in progress.
OwnCommits == {k \in 1..Len(commits) : commits[k].by = "bot" /\ commits[k].second = followup}

\* The first line of ls that holds the marker.
FirstMarkerLine(ls) ==
    CHOOSE i \in 1..Len(ls) : HasMarker(ls[i]) /\ \A j \in 1..(i - 1) : ~HasMarker(ls[j])

C23_ReadFailureIsNone ==
    /\ (gpc = "done" /\ gcall.op = "read") =>
          /\ gresult.raised = "none"
          /\ IF api = <<Request("get_contents", "ok")>>
             THEN gresult.value = <<file>>
             ELSE gresult.value = <<>>
    /\ (gpc = "done" /\ gcall.op \in {"add", "remove"} /\ content = <<>>) =>
          /\ ~gresult.success
          /\ \A i \in 1..Len(api) : api[i].req # "update_file"
          /\ OwnCommits = {}

\* C23 witness: the read of an add ended in a GithubException and the add
\* reported failure.
C23_Witness ==
    /\ gpc = "done" /\ gcall.op = "add" /\ repo
    /\ api = <<Request("get_contents", "GithubException")>>
    /\ content = <<>>
    /\ ~gresult.success

(***************************************************************************)
(* dns_service.py: _build_dns_query called on one name.                    *)
(***************************************************************************)
\* The labels of the names encoded: "a", "bc", "n", as ASCII bytes.
EncodeLabels == {<<97>>, <<98, 99>>, NsLabel}

EncodeInputs ==
    [domain : SeqUpTo(EncodeLabels, MaxLabels) \ {<<>>},
     use_edns_china : BOOLEAN,
     record_type : {TypeA, TypeNS}]

InitEncode ==
    /\ ClsIdle /\ reader = FALSE /\ inputs = {} /\ track = FALSE
    /\ DecOff /\ QryOff /\ LifeOff /\ GhOff /\ BotOff
    /\ fname = "build_dns_query"
    /\ farg \in EncodeInputs
    /\ fret = <<>>
    /\ fpc = "call"

BuildDnsQuery ==
    /\ fpc = "call"
    /\ fname = "build_dns_query"
    /\ fret' = build_dns_query(farg.domain, farg.use_edns_china, farg.record_type)
    /\ fpc' = "done"
    /\ UNCHANGED <<fname, farg>>
    /\ UNCHANGED <<clsVars, decVars, qryVars, lifeVars, ghVars, botVars>>

NextEncode == BuildDnsQuery

SpecEncode == InitEncode /\ [][NextEncode]_vars

\* The number of bytes the labels of a name take with their length bytes.
RECURSIVE NameBytes(_)
NameBytes(ls) == IF ls = <<>> THEN 0 ELSE 1 + Len(Head(ls)) + NameBytes(Tail(ls))

\* C28: an encoded query has question count 1, after its name the QTYPE
\* asked for (1 for A, 2 for NS) and QCLASS 1, and an additional-record
\* count of 1 when the client-subnet option was asked for and 0 otherwise;
\* bytes follow the question exactly when that count is 1, and they are a
\* record with the root name and type OPT (41) that carries option code 8.
C28_QueryCountsAndOpt ==
    (fpc = "done" /\ fname = "build_dns_query") =>
        LET qtype_at == 12 + NameBytes(farg.domain) + 1
            rest == SubSeq(fret, qtype_at + 5, Len(fret))
        IN  /\ U16(fret, 4) = 1
            /\ fret[qtype_at] = 0
            /\ U16(fret, qtype_at) = farg.record_type
            /\ U16(fret, qtype_at + 2) = 1
            /\ U16(fret, 10) = (IF farg.use_edns_china THEN 1 ELSE 0)
            /\ (rest # <<>>) <=> (U16(fret, 10) = 1)
            /\ rest # <<>> =>
                  /\ rest[1] = 0
                  /\ U16(rest, 1) = 41
                  /\ U16(rest, 9) = 8

\* C28 witness: the NS query for n.a.bc with the client-subnet option: one
\* additional record, and the OPT record after the question.
C28_Witness ==
    /\ fpc = "done" /\ fname = "build_dns_query"
    /\ farg.domain = <<NsLabel>> \o QName
    /\ farg.record_type = TypeNS /\ farg.use_edns_china
    /\ U16(fret, 10) = 1
    /\ Len(fret) = 12 + 8 + 4 + Len(EdnsChina)

(***************************************************************************)
(* handler_manager.py: the handlers of one user's updates, after           *)
(* HandlerManager.start has made its assignments.  The user passes the     *)
(* permission and membership tests that open every handler.  A message     *)
(* text is a sequence of tokens: a label of a host name, "." a dot, "SP" a *)
(* space, "x" any other character.  A rule file is the sequence of the     *)
(* domains of its DOMAIN-SUFFIX lines; the text of the file is the subject *)
(* of SpecGitHub.                                                          *)
(***************************************************************************)
MAX_DESCRIPTION_LENGTH == 20   \* line 53
MAX_ADDS_PER_HOUR == 50        \* line 54
Hour == 3600                   \* line 82

MaxMessages == 2   \* most messages with a flow button kept in the chat
MaxCommits == 2    \* most commits the repository accepts in one run
MaxTicks == 1      \* most hours that pass in one run

NoText == <<>>

\* len() of a token's text.
CharLen(tok) ==
    CASE tok = "example" -> 7
      [] tok = "police"  -> 6
      [] tok \in {"www", "com"} -> 3
      [] tok \in {"co", "uk", "cn"} -> 2
      [] OTHER -> 1

\* len(text)
RECURSIVE TextLen(_)
TextLen(text) ==
    IF text = <<>> THEN 0 ELSE CharLen(Head(text)) + TextLen(Tail(text))

\* A run of n characters that are neither spaces nor dots.
Words(n) == [i \in 1..n |-> "x"]

\* The text of a host name given by its labels.
RECURSIVE DomainText(_)
DomainText(parts) ==
    IF parts = <<>> THEN <<>>
    ELSE IF Len(parts) = 1 THEN parts
    ELSE <<Head(parts), ".">> \o DomainText(Tail(parts))

\* text.split('.') for a text that is labels joined by dots; any other
\* text gives a piece that is no label.
HostLabels(text) ==
    IF /\ Len(text) % 2 = 1
       /\ \A i \in 1..Len(text) : (i % 2 = 0) <=> (text[i] = ".")
    THEN [i \in 1..((Len(text) + 1) \div 2) |-> text[2 * i - 1]]
    ELSE <<"?">>

\* What the user types: three hosts to add or query, the .cn host, the host
\* listed in GEOSITE:CN, a word, a text of MAX_DESCRIPTION_LENGTH characters
\* after a space, and a text of one character more.
TextInputs ==
    {DomainText(<<"example", "com">>), DomainText(<<"a", "example", "com">>),
     DomainText(<<"example", "cn">>), DomainText(<<"example", "co", "uk">>),
     <<"x">>, <<"SP">> \o Words(MAX_DESCRIPTION_LENGTH),
     Words(MAX_DESCRIPTION_LENGTH + 1)}

\* data_manager.geosite_index
geosite_index == {<<"example", "co", "uk">>}

\* domain.endswith('.cn')
EndsWithCn(domain) == Len(domain) >= 2 /\ domain[Len(domain)] = "cn"

\* is_cn_domain with "return False": no domain is taken for a .cn domain.
IsCnNever(domain) == FALSE

\* is_cn_domain
is_cn_domain(domain) == domain # NoDomain /\ EndsWithCn(domain)

\* extract_second_level_domain_for_rules
extract_second_level_domain_for_rules(url_or_domain) ==
    LET domain == extract_domain(url_or_domain)
        second_level == extract_second_level_domain(domain)
    IN  IF domain = NoDomain THEN NoDomain
        ELSE IF EndsWithCn(domain) THEN NoDomain
        ELSE IF second_level = NoDomain THEN NoDomain
        ELSE IF EndsWithCn(second_level) THEN NoDomain
        ELSE second_level

\* is_domain_in_geosite: the domain or one of its parents is in the index.
is_domain_in_geosite(domain) ==
    \E k \in 1..Len(domain) : LastN(domain, k) \in geosite_index

\* check_domain_in_rules, the "exists" of its result: a rule for the domain
\* or for a parent of it.
check_domain_in_rules(rules, domain) ==
    \E i \in 1..Len(rules) :
        \/ rules[i] = domain
        \/ /\ Len(domain) > Len(rules[i]) /\ rules[i] # <<>>
           /\ LastN(domain, Len(rules[i])) = rules[i]

\* What the resolver answers during one classification.
Answers ==
    {[domain_ips |-> <<IpCN>>, second_level_ips |-> <<>>,
      ns_servers |-> <<>>, ns_ips |-> <<>>],
     [domain_ips |-> <<IpUS>>, second_level_ips |-> <<>>,
      ns_servers |-> <<>>, ns_ips |-> <<>>],
     [domain_ips |-> <<IpUS>>, second_level_ips |-> <<IpUS>>,
      ns_servers |-> << <<"ns1", "example", "com">> >>, ns_ips |-> <<IpCN>>],
     [domain_ips |-> <<>>, second_level_ips |-> <<>>,
      ns_servers |-> <<>>, ns_ips |-> <<>>]}

\* domain_checker.py, lines 128-156: the name servers, then the totals.
TotalsOfTally(t) ==
    Totals(FinishNs(t.result, t.ns_summary, t.china_ns_count, t.total_ns_count))

\* Lines 99-156: the result once ns_servers is known.
AfterNs(rd, r, a) ==
    IF a.ns_servers = <<>>
    THEN Totals([r EXCEPT !.details = Append(@, <<"ns", "unresolved">>)])
    ELSE TotalsOfTally(TallyNsHost(rd, r, <<>>, 0, 0, a.ns_servers[1], a.ns_ips))

\* Lines 75-97: the second-level domain, queried when it differs.
AfterDomain(rd, r, second_level, normalized_domain, a) ==
    AfterNs(rd,
            [(IF QueriesSecondLevel(second_level, normalized_domain)
              THEN TallySecondLevel(rd, r, a.second_level_ips) ELSE r)
             EXCEPT !.ns_servers = a.ns_servers],
            a)

\* Lines 33-73: the error of an invalid domain, else the domain's addresses.
CheckNormalized(rd, domain, normalized_domain, second_level, a) ==
    IF IsNone(normalized_domain) THEN ErrorResult("invalid_domain")
    ELSE AfterDomain(rd,
                     TallyDomain(rd, InitialResult(domain, normalized_domain,
                                                   second_level), a.domain_ips),
                     second_level, normalized_domain, a)

\* check_domain_comprehensive (domain_checker.py:21-162) with the answers
\* of its resolver calls given.
check_domain_comprehensive(rd, domain, a) ==
    CheckNormalized(rd, domain, normalize_domain(domain),
                    extract_second_level_domain(normalize_domain(domain)), a)

\* get_user_state of a user without an entry; set_user_state stores
\* "data or {}".
IdleState == [state |-> "idle", data |-> <<>>]

set_user_state(state, state_data) == [state |-> state, data |-> state_data]

\* The data stored after a check.
DomainData(domain, check_result) == [domain |-> domain, check_result |-> check_result]

\* Line 94: current_count < self.MAX_ADDS_PER_HOUR
CanAdd(current_count) == current_count < MAX_ADDS_PER_HOUR

\* check_user_add_limit: the history is cut to the last hour.
check_user_add_limit(history, current_time) ==
    LET kept == SelectSeq(history, LAMBDA timestamp : timestamp > current_time - Hour)
    IN  [history |-> kept,
         can_add |-> CanAdd(Len(kept)),
         remaining |-> MAX_ADDS_PER_HOUR - Len(kept)]

\* record_user_add
record_user_add(history, current_time) == Append(history, current_time)

\* Line 114 with the limit one higher.
TooLongAboveLimit(description) == TextLen(description) > MAX_DESCRIPTION_LENGTH + 1

\* Line 114: len(description) > self.MAX_DESCRIPTION_LENGTH
TooLong(description) == TextLen(description) > MAX_DESCRIPTION_LENGTH

\* validate_description; the cut text of line 115 is only shown to the user.
validate_description(description) ==
    IF description = NoText THEN [is_valid |-> TRUE, description |-> NoText]
    ELSE IF TooLong(Strip(description))
    THEN [is_valid |-> FALSE, description |-> NoText]
    ELSE [is_valid |-> TRUE, description |-> Strip(description)]

\* The name the user's commits are signed with (from_user.first_name).
UserName == "user"

\* callback_data: a name, and the domain that follows the prefix in
\* add_domain_<domain> and add_proxy_domain_<domain>.
Data(name) == <<name, NoDomain>>

DataFor(prefix, domain) == <<prefix, domain>>

\* The buttons that start or continue an add; every other button opens a
\* page of the menu.
FlowNames ==
    {"add_domain_", "add_proxy_domain_", "confirm_add_yes", "confirm_add_no",
     "confirm_add_proxy_yes", "confirm_add_proxy_no", "skip_description",
     "skip_description_proxy"}

IsFlow(keyboard) == \E b \in keyboard : b[1] \in FlowNames

\* A message without a flow button.  The chat always holds one with the
\* menu: the reply to /start, which the buttons main_menu and the pages
\* behind it edit back and forth.
MenuMessage == {}

\* reply_text / edit_message_text without reply_markup.
NoKeyboard == {}

\* The buttons the user can press: (message, callback_data).
Pressable(names) ==
    {p \in messages \X (UNION messages) : p[2] \in p[1] /\ p[2][1] \in names}

PressableMenu(name) == Pressable({name}) \cup {<<MenuMessage, Data(name)>>}

\* query.edit_message_text on the message src, with this keyboard.
Edited(src, keyboard) ==
    IF IsFlow(keyboard) THEN (messages \ {src}) \cup {keyboard} ELSE messages \ {src}

\* message.reply_text with this keyboard: a new message.
Replied(keyboard) == IF IsFlow(keyboard) THEN messages \cup {keyboard} ELSE messages

BotOn == user_state # <<>>

otherVars == <<clsVars, decVars, qryVars, fnVars, lifeVars, ghVars>>

InitBot ==
    /\ ClsIdle /\ reader = TRUE /\ inputs = {} /\ track = FALSE
    /\ DecOff /\ QryOff /\ FnOff /\ LifeOff /\ GhOff
    /\ user_state = IdleState
    /\ user_add_history \in {<<>>, [i \in 1..(MAX_ADDS_PER_HOUR - 1) |-> 0]}
    /\ now = 0
    /\ messages = {}
    /\ direct_rules = <<>> /\ proxy_rules = <<>>
    /\ last_add = <<>> /\ reply = "none"

\* start_command (lines 168-217).
StartCommand ==
    /\ BotOn
    /\ user_state' = set_user_state("idle", <<>>)
    /\ reply' = "page" /\ last_add' = <<>>
    /\ UNCHANGED <<user_add_history, now, messages, direct_rules, proxy_rules>>
    /\ UNCHANGED otherVars

\* query_command (lines 265-295).
QueryCommand ==
    /\ BotOn
    /\ user_state' = set_user_state("waiting_query_domain", <<>>)
    /\ reply' = "page" /\ last_add' = <<>>
    /\ UNCHANGED <<user_add_history, now, messages, direct_rules, proxy_rules>>
    /\ UNCHANGED otherVars

\* _show_main_menu (lines 408-442): the message pressed becomes the menu.
\* _show_help and _show_delete_not_supported are reached from the menu only
\* and change nothing the model holds.
ShowMainMenu ==
    /\ BotOn
    /\ \E p \in PressableMenu("main_menu") : messages' = Edited(p[1], MenuMessage)
    /\ reply' = "page" /\ last_add' = <<>>
    /\ UNCHANGED <<user_state, user_add_history, now, direct_rules, proxy_rules>>
    /\ UNCHANGED otherVars

\* _start_domain_query (lines 480-505).
StartDomainQuery ==
    /\ BotOn
    /\ \E p \in PressableMenu("query_domain") :
          messages' = Edited(p[1], {Data("main_menu")})
    /\ user_state' = set_user_state("waiting_query_domain", <<>>)
    /\ reply' = "page" /\ last_add' = <<>>
    /\ UNCHANGED <<user_add_history, now, direct_rules, proxy_rules>>
    /\ UNCHANGED otherVars

\* _start_add_direct_rule (lines 507-542).
StartAddDirectRule ==
    /\ BotOn
    /\ \E p \in PressableMenu("add_direct_rule") :
          messages' = Edited(p[1], {Data("main_menu")})
    /\ user_state' = set_user_state("waiting_add_domain", <<>>)
    /\ user_add_history' = check_user_add_limit(user_add_history, now).history
    /\ reply' = "page" /\ last_add' = <<>>
    /\ UNCHANGED <<now, direct_rules, proxy_rules>>
    /\ UNCHANGED otherVars

\* _start_add_proxy_rule (lines 544-565).
StartAddProxyRule ==
    /\ BotOn
    /\ \E p \in PressableMenu("add_proxy_rule") :
          messages' = Edited(p[1], {Data("main_menu")})
    /\ user_state' = set_user_state("waiting_add_proxy_domain", <<>>)
    /\ user_add_history' = check_user_add_limit(user_add_history, now).history
    /\ reply' = "page" /\ last_add' = <<>>
    /\ UNCHANGED <<now, direct_rules, proxy_rules>>
    /\ UNCHANGED otherVars

\* handle_message (lines 373-406) in a state that waits for no text:
\* _show_main_menu_message.
ShowMainMenuMessage ==
    /\ BotOn
    /\ user_state.state \in {"idle", "domain_checked", "proxy_domain_checked"}
    /\ reply' = "page" /\ last_add' = <<>>
    /\ UNCHANGED <<user_state, user_add_history, now, messages, direct_rules,
                   proxy_rules>>
    /\ UNCHANGED otherVars

\* _handle_domain_query (lines 615-735); line 385 strips the text.
HandleDomainQuery ==
    /\ BotOn /\ user_state.state = "waiting_query_domain"
    /\ \E text \in TextInputs, a \in Answers :
          \E domain \in {normalize_domain(HostLabels(Strip(text)))} :
          \E check_result \in {check_domain_comprehensive(reader, domain, a)} :
          LET github_exists == check_domain_in_rules(direct_rules, domain)
              in_geosite == is_domain_in_geosite(domain)
              offered == ~github_exists /\ ~in_geosite /\ ~HasKey(check_result, "error")
              china_total == Get(check_result, "china_total_count", 0)
              foreign_total == Get(check_result, "foreign_total_count", 0)
              keyboard ==
                  (IF offered /\ foreign_total > china_total
                   THEN {DataFor("add_proxy_domain_", domain)}
                   ELSE IF /\ offered
                           /\ \/ Get(check_result, "domain_china_status", FALSE)
                              \/ Get(check_result, "second_level_china_status", FALSE)
                              \/ Get(check_result, "ns_china_status", FALSE)
                   THEN {DataFor("add_domain_", domain)}
                   ELSE {})
                  \cup {Data("query_domain"), Data("main_menu")}
          IN  IF domain = NoDomain
              THEN /\ reply' = "invalid_domain"
                   /\ UNCHANGED <<user_state, messages>>
              ELSE IF is_cn_domain(domain)
              THEN /\ reply' = "cn_domain"
                   /\ user_state' = set_user_state("idle", <<>>)
                   /\ UNCHANGED messages
              ELSE /\ reply' = "query_result"
                   /\ messages' = Replied(keyboard)
                   /\ user_state' = set_user_state("idle", <<>>)
    /\ Cardinality(messages') <= MaxMessages
    /\ last_add' = <<>>
    /\ UNCHANGED <<user_add_history, now, direct_rules, proxy_rules>>
    /\ UNCHANGED otherVars

\* _handle_add_domain_input (lines 737-924).
HandleAddDomainInput ==
    /\ BotOn /\ user_state.state = "waiting_add_domain"
    /\ \E text \in TextInputs, a \in Answers :
          \E domain_input \in {HostLabels(Strip(text))} :
          \E domain \in {extract_second_level_domain_for_rules(domain_input)} :
          \E check_result \in {check_domain_comprehensive(reader, domain, a)} :
          LET limit == check_user_add_limit(user_add_history, now)
              normalized_input == normalize_domain(domain_input)
              second_level == extract_second_level_domain(domain)
              keyboard ==
                  (IF should_add_directly(check_result)
                   THEN {Data("confirm_add_yes"), Data("confirm_add_no")}
                   ELSE IF should_reject(check_result)
                   THEN {Data("add_direct_rule")}
                   ELSE {Data("confirm_add_yes"), Data("confirm_add_no")})
                  \cup {Data("main_menu")}
              refused(text_sent) ==
                  /\ reply' = text_sent
                  /\ user_state' = set_user_state("idle", <<>>)
                  /\ UNCHANGED messages
          IN  /\ user_add_history' = limit.history
              /\ IF ~limit.can_add THEN refused("add_limit")
                 ELSE IF normalized_input # NoDomain /\ is_cn_domain(normalized_input)
                 THEN refused("cn_domain")
                 ELSE IF domain = NoDomain THEN refused("invalid_domain")
                 ELSE IF check_domain_in_rules(direct_rules, domain)
                 THEN refused("exists")
                 ELSE IF /\ second_level # NoDomain /\ second_level # domain
                         /\ check_domain_in_rules(direct_rules, second_level)
                 THEN refused("exists")
                 ELSE IF is_domain_in_geosite(domain) THEN refused("in_geosite")
                 ELSE IF HasKey(check_result, "error")
                 THEN /\ reply' = "check_failed"
                      /\ UNCHANGED <<user_state, messages>>
                 ELSE /\ reply' = "check_result"
                      /\ user_state' = set_user_state("domain_checked",
                                           DomainData(domain, check_result))
                      /\ messages' = Replied(keyboard)
    /\ Cardinality(messages') <= MaxMessages
    /\ last_add' = <<>>
    /\ UNCHANGED <<now, direct_rules, proxy_rules>>
    /\ UNCHANGED otherVars

\* _handle_add_proxy_domain_input (lines 926-1063).
HandleAddProxyDomainInput ==
    /\ BotOn /\ user_state.state = "waiting_add_proxy_domain"
    /\ \E text \in TextInputs, a \in Answers :
          \E domain_input \in {HostLabels(Strip(text))} :
          \E domain \in {extract_second_level_domain_for_rules(domain_input)} :
          \E check_result \in {check_domain_comprehensive(reader, domain, a)} :
          LET limit == check_user_add_limit(user_add_history, now)
              normalized_input == normalize_domain(domain_input)
              second_level == extract_second_level_domain(domain)
              keyboard ==
                  (IF should_add_proxy(check_result)
                   THEN {Data("confirm_add_proxy_yes"), Data("confirm_add_proxy_no")}
                   ELSE {Data("add_proxy_rule")})
                  \cup {Data("main_menu")}
              refused(text_sent) ==
                  /\ reply' = text_sent
                  /\ user_state' = set_user_state("idle", <<>>)
                  /\ UNCHANGED messages
          IN  /\ user_add_history' = limit.history
              /\ IF ~limit.can_add THEN refused("add_limit")
                 ELSE IF normalized_input # NoDomain /\ is_cn_domain(normalized_input)
                 THEN refused("cn_domain")
                 ELSE IF domain = NoDomain THEN refused("invalid_domain")
                 ELSE IF check_domain_in_rules(proxy_rules, domain)
                 THEN refused("exists")
                 ELSE IF check_domain_in_rules(direct_rules, domain)
                 THEN refused("exists")
                 ELSE IF /\ second_level # NoDomain /\ second_level # domain
                         /\ check_domain_in_rules(proxy_rules, second_level)
                 THEN refused("exists")
                 ELSE IF is_domain_in_geosite(domain) THEN refused("in_geosite")
                 ELSE IF HasKey(check_result, "error")
                 THEN /\ reply' = "check_failed"
                      /\ UNCHANGED <<user_state, messages>>
                 ELSE /\ reply' = "check_result"
                      /\ user_state' = set_user_state("proxy_domain_checked",
                                           DomainData(domain, check_result))
                      /\ messages' = Replied(keyboard)
    /\ Cardinality(messages') <= MaxMessages
    /\ last_add' = <<>>
    /\ UNCHANGED <<now, direct_rules, proxy_rules>>
    /\ UNCHANGED otherVars

\* _handle_add_domain_callback (lines 1065-1110): the button of a query
\* result.
HandleAddDomainCallback ==
    /\ BotOn
    /\ \E p \in Pressable({"add_domain_"}), a \in Answers :
          \E domain \in {p[2][2]} :
          \E check_result \in {check_domain_comprehensive(reader, domain, a)} :
          LET keyboard ==
                  (IF ~should_reject(check_result)
                   THEN {Data("confirm_add_yes"), Data("confirm_add_no")}
                   ELSE {})
                  \cup {Data("main_menu")}
          IN  IF HasKey(check_result, "error")
              THEN /\ reply' = "check_failed"
                   /\ messages' = Edited(p[1], NoKeyboard)
                   /\ UNCHANGED user_state
              ELSE /\ reply' = "check_result"
                   /\ user_state' = set_user_state("domain_checked",
                                        DomainData(domain, check_result))
                   /\ messages' = Edited(p[1], keyboard)
    /\ last_add' = <<>>
    /\ UNCHANGED <<user_add_history, now, direct_rules, proxy_rules>>
    /\ UNCHANGED otherVars

\* _handle_add_proxy_domain_callback (lines 1112-1148).
HandleAddProxyDomainCallback ==
    /\ BotOn
    /\ \E p \in Pressable({"add_proxy_domain_"}), a \in Answers :
          \E domain \in {p[2][2]} :
          \E check_result \in {check_domain_comprehensive(reader, domain, a)} :
          LET keyboard ==
                  IF should_add_proxy(check_result)
                  THEN {Data("confirm_add_proxy_yes"), Data("confirm_add_proxy_no"),
                        Data("main_menu")}
                  ELSE {Data("add_proxy_rule"), Data("main_menu")}
          IN  IF HasKey(check_result, "error")
              THEN /\ reply' = "check_failed"
                   /\ messages' = Edited(p[1], NoKeyboard)
                   /\ UNCHANGED user_state
              ELSE /\ reply' = "check_result"
                   /\ user_state' = set_user_state("proxy_domain_checked",
                                        DomainData(domain, check_result))
                   /\ messages' = Edited(p[1], keyboard)
    /\ last_add' = <<>>
    /\ UNCHANGED <<user_add_history, now, direct_rules, proxy_rules>>
    /\ UNCHANGED otherVars

\* Lines 1150-1199 and 1201-1238: the answer to "confirm"; no is the data
\* ending in _no, every other data of the prefix is a yes.
ConfirmAdd(p, no, again, waiting, skip) ==
    IF p[2][1] = no
    THEN /\ reply' = "cancelled"
         /\ messages' = Edited(p[1], {Data(again), Data("main_menu")})
         /\ user_state' = set_user_state("idle", <<>>)
    ELSE IF user_state.data = <<>>
    THEN /\ reply' = "data_lost"
         /\ messages' = Edited(p[1], NoKeyboard)
         /\ UNCHANGED user_state
    ELSE /\ reply' = "ask_description"
         /\ messages' = Edited(p[1], {Data(skip)})
         /\ user_state' = set_user_state(waiting, user_state.data)

\* _handle_confirm_add_callback (lines 1150-1199).
HandleConfirmAddCallback ==
    /\ BotOn
    /\ \E p \in Pressable({"confirm_add_yes", "confirm_add_no"}) :
          ConfirmAdd(p, "confirm_add_no", "add_direct_rule", "waiting_description",
                     "skip_description")
    /\ last_add' = <<>>
    /\ UNCHANGED <<user_add_history, now, direct_rules, proxy_rules>>
    /\ UNCHANGED otherVars

\* _handle_confirm_add_proxy_callback (lines 1201-1238).
HandleConfirmAddProxyCallback ==
    /\ BotOn
    /\ \E p \in Pressable({"confirm_add_proxy_yes", "confirm_add_proxy_no"}) :
          ConfirmAdd(p, "confirm_add_proxy_no", "add_proxy_rule",
                     "waiting_proxy_description", "skip_description_proxy")
    /\ last_add' = <<>>
    /\ UNCHANGED <<user_add_history, now, direct_rules, proxy_rules>>
    /\ UNCHANGED otherVars

\* add_domain_to_rules as its caller sees it: it fails, or it puts the rule
\* after the marker, which is the first line of both files.
AddedTo(rules, domain) == <<domain>> \o rules

\* _add_domain_to_github, _add_domain_to_github_proxy and the two _message
\* variants (lines 1299-1524): the target, the call, the record of the add
\* and the reset of the state.  after_edit is the chat after the message of
\* the button was edited (the chat as it is for the _message variants).
AddDomainToGithub(description, proxy, after_edit) ==
    LET domain_data == user_state.data
        check_result == domain_data.check_result
        selected == IF proxy THEN get_target_domain_to_add_proxy(check_result)
                    ELSE get_target_domain_to_add(check_result)
        target_domain == IF selected # NoDomain THEN selected ELSE domain_data.domain
    IN  IF domain_data = <<>>
        THEN /\ reply' = "data_lost"
             /\ last_add' = <<>>
             /\ messages' = after_edit
             /\ UNCHANGED <<user_state, user_add_history, direct_rules, proxy_rules>>
        ELSE \E success \in BOOLEAN :
                /\ success => Len(direct_rules) + Len(proxy_rules) < MaxCommits
                /\ last_add' = [domain |-> target_domain, user_name |-> UserName,
                                description |-> description,
                                file_path |-> IF proxy THEN "proxy" ELSE "direct",
                                check_result |-> check_result,
                                success |-> success]
                /\ IF success
                   THEN /\ reply' = "added"
                        /\ direct_rules' = IF proxy THEN direct_rules
                                           ELSE AddedTo(direct_rules, target_domain)
                        /\ proxy_rules' = IF proxy THEN AddedTo(proxy_rules, target_domain)
                                          ELSE proxy_rules
                        /\ user_add_history' =
                               check_user_add_limit(
                                   record_user_add(user_add_history, now), now).history
                   ELSE /\ reply' = "add_failed"
                        /\ UNCHANGED <<user_add_history, direct_rules, proxy_rules>>
                /\ messages' = after_edit
                /\ user_state' = set_user_state("idle", <<>>)

\* _handle_skip_description (lines 1240-1242).
HandleSkipDescription ==
    /\ BotOn
    /\ \E p \in Pressable({"skip_description"}) :
          AddDomainToGithub(NoText, FALSE, Edited(p[1], {Data("add_direct_rule")}))
    /\ UNCHANGED now
    /\ UNCHANGED otherVars

\* _handle_skip_description_proxy (lines 1244-1245).
HandleSkipDescriptionProxy ==
    /\ BotOn
    /\ \E p \in Pressable({"skip_description_proxy"}) :
          AddDomainToGithub(NoText, TRUE, Edited(p[1], {Data("add_proxy_rule")}))
    /\ UNCHANGED now
    /\ UNCHANGED otherVars

\* Lines 1247-1297: the description typed; line 385 strips the text.
DescriptionInput(text, proxy) ==
    LET validated == validate_description(Strip(text))
    IN  IF ~validated.is_valid
        THEN /\ reply' = "too_long"
             /\ last_add' = <<>>
             /\ UNCHANGED <<user_state, user_add_history, messages, direct_rules,
                            proxy_rules>>
        ELSE AddDomainToGithub(validated.description, proxy, messages)

\* _handle_description_input (lines 1247-1274).
HandleDescriptionInput ==
    /\ BotOn /\ user_state.state = "waiting_description"
    /\ \E text \in TextInputs : DescriptionInput(text, FALSE)
    /\ UNCHANGED now
    /\ UNCHANGED otherVars

\* _handle_proxy_description_input (lines 1276-1297).
HandleProxyDescriptionInput ==
    /\ BotOn /\ user_state.state = "waiting_proxy_description"
    /\ \E text \in TextInputs : DescriptionInput(text, TRUE)
    /\ UNCHANGED now
    /\ UNCHANGED otherVars

\* An hour passes between two updates.
Tick ==
    /\ BotOn /\ now < MaxTicks * Hour
    /\ now' = now + Hour
    /\ UNCHANGED <<user_state, user_add_history, messages, direct_rules, proxy_rules,
                   last_add, reply>>
    /\ UNCHANGED otherVars

NextBot ==
    \/ StartCommand
    \/ QueryCommand
    \/ ShowMainMenu
    \/ StartDomainQuery
    \/ StartAddDirectRule
    \/ StartAddProxyRule
    \/ ShowMainMenuMessage
    \/ HandleDomainQuery
    \/ HandleAddDomainInput
    \/ HandleAddProxyDomainInput
    \/ HandleAddDomainCallback
    \/ HandleAddProxyDomainCallback
    \/ HandleConfirmAddCallback
    \/ HandleConfirmAddProxyCallback
    \/ HandleSkipDescription
    \/ HandleSkipDescriptionProxy
    \/ HandleDescriptionInput
    \/ HandleProxyDescriptionInput
    \/ Tick

SpecBot == InitBot /\ [][NextBot]_vars

(***************************************************************************)
(* Properties of the rule file under add and remove.                       *)
(***************************************************************************)
HasLine(text, line) == \E i \in 1..Len(split(text)) : split(text)[i] = line

\* C36: when another write to the rule file lands between the content read
\* of add_domain_to_rules and its commit, and the add reports success, the
\* file holds the changes of both.
C36_NoLostUpdate ==
    (gpc = "done" /\ gcall.op = "add" /\ gresult.success /\ external) =>
        /\ HasLine(file, ExternalRule)
        /\ HasLine(file, <<"DS", gcall.domain>>)

\* A line of the text holds the marker.
HasMarkerLine(text) == \E i \in 1..Len(split(text)) : HasMarker(split(text)[i])

\* The line is a rule for the domain, compared without case.
IsRuleFor(line, domain) ==
    /\ Strip(line) # <<>> /\ Head(Strip(line)) = "DS"
    /\ LowerText(Strip(Tail(Strip(line)))) = LowerText(TokText(domain))

HasRuleFor(text, domain) ==
    \E i \in 1..Len(split(text)) : IsRuleFor(split(text)[i], domain)

\* The commit of the add that came before the remove in progress.
AddCommits == {k \in 1..Len(commits) : commits[k].by = "bot" /\ ~commits[k].second}

RemovedWhatWasAdded ==
    /\ gpc = "done" /\ followup /\ gcall.op = "remove" /\ gresult.success
    /\ \E k \in AddCommits : commits[k].message[2] = gcall.domain
    /\ HasMarkerLine(before) /\ ~HasRuleFor(before, gcall.domain)

IsAddComment(line) == line # <<>> /\ Head(line) = "#" /\ \E i \in 1..Len(line) : line[i] = "by"

\* The lines remove_domain_from_rules(domain) is to take out of ls: the
\* rules for the domain, each with the comment add wrote before it.
ToRemove(ls, domain) ==
    {i \in 1..Len(ls) :
        \/ IsRuleFor(ls[i], domain)
        \/ i < Len(ls) /\ IsAddComment(ls[i]) /\ IsRuleFor(ls[i + 1], domain)}

\* ls without the lines whose index is in S.
RECURSIVE Without(_, _, _)
Without(ls, S, i) ==
    IF i > Len(ls) THEN <<>>
    ELSE IF i \in S THEN Without(ls, S, i + 1)
    ELSE <<ls[i]>> \o Without(ls, S, i + 1)

RemoveDone == gpc = "done" /\ gcall.op = "remove"

\* C39: remove_domain_from_rules(d) takes out every DOMAIN-SUFFIX line of d
\* (compared without case) with the comment add wrote for it, and nothing
\* else: the marker, other comments and all other lines stay, in order;
\* with no rule for d it reports failure and makes no commit.
C39_RemoveOnlyRuleAndItsComment ==
    /\ (RemoveDone /\ gresult.success) =>
          /\ Cardinality(OwnCommits) = 1
          /\ \A k \in OwnCommits :
                commits[k].content =
                    join(Without(split(content[1]),
                                 ToRemove(split(content[1]), gcall.domain), 1))
    /\ (RemoveDone /\ content # <<>> /\ ~HasRuleFor(content[1], gcall.domain)) =>
          /\ ~gresult.success
          /\ OwnCommits = {}

(***************************************************************************)
(* Properties of the handlers.                                             *)
(***************************************************************************)
\* The last update made the bot call add_domain_to_rules.
Called == last_add # <<>>

\* The last update committed a rule to this file.
Committed(file_path) == Called /\ last_add.success /\ last_add.file_path = file_path

AddsInWindow ==
    Cardinality({i \in 1..Len(user_add_history) : user_add_history[i] > now - Hour})

C35_NoCnDomainAdded == Called => ~EndsWithCn(last_add.domain)

\* add_domain_to_rules was called with success for both files.
C35_Witness ==
    /\ Called /\ last_add.success
    /\ direct_rules # <<>> /\ proxy_rules # <<>>
    /\ ~EndsWithCn(last_add.domain)

WaitsForDescription ==
    /\ user_state.state \in {"waiting_description", "waiting_proxy_description"}
    /\ user_state.data # <<>>
    /\ is_valid_domain(user_state.data.domain)

\* C40: every description passed to add_domain_to_rules is trimmed and at
\* most MAX_DESCRIPTION_LENGTH characters long; a longer one is refused
\* without a call, the user still waiting for a description with the
\* checked domain stored.
C40_DescriptionBounded ==
    /\ Called =>
          /\ TextLen(last_add.description) <= MAX_DESCRIPTION_LENGTH
          /\ Strip(last_add.description) = last_add.description
    /\ reply = "too_long" => ~Called /\ WaitsForDescription

\* A description of exactly MAX_DESCRIPTION_LENGTH characters was committed
\* after its surrounding space was removed.
C40_Witness ==
    /\ Called /\ last_add.success
    /\ TextLen(last_add.description) = MAX_DESCRIPTION_LENGTH

\* A description of one character more was refused.
C40_WitnessRefused == reply = "too_long" /\ WaitsForDescription

====
